---- MODULE Spec2Model ----
(***************************************************************************)
(* MIDI parsing and framing layer of the Control Surface library.          *)
(*                                                                         *)
(* StreamMIDI_Interface owns a Stream and a SerialMIDI_Parser.  read()     *)
(* pulls bytes from the stream and hands them to the parser one at a time  *)
(* until the parser reports an event.  The message model (ChannelMessage,  *)
(* SysExMessage, RealTimeMessage, MIDIMessageType) and read() are taken    *)
(* from the sources; the byte-level state machine SerialMIDI_Parser::parse *)
(* is not part of the available sources and follows section 4.1 of the     *)
(* specification.                                                          *)
(***************************************************************************)
EXTENDS Integers, Sequences, FiniteSets, TLC

(***************************************************************************)
(* Bounds of the model.                                                    *)
(***************************************************************************)
\* Total number of bytes that arrive on the stream in one behaviour.
MaxBytes == 5
\* The same total for the runs over all seven channel-voice types.
MaxTypeBytes == 4
\* The same total for the runs with system bytes (0xF1, 0xF6) in the input.
MaxSysBytes == 5
\* The same total for the runs that end in a complete channel message.
MaxResyncBytes == 5
\* Bytes and parser resets together in one run with resets.
MaxResetBytes == 5
\* Bytes that arrive in one run in which several bytes may wait unread.
MaxBatchBytes == 4
\* USB packets received in one run.
MaxPackets == 4
\* The update() calls of one run of the switch selector.
MaxSelectorUpdates == 7
\* The encoder positions -MaxPosition..MaxPosition and the update() calls
\* of one run of the rotary encoder.
MaxPosition == 3
MaxUpdates == 2
\* Calls of writeUSBPacket() and read() in one run of the Teensy++ 2.0
\* interface, and the times one call polls the endpoint.
MaxPPCalls == 2
MaxPolls == 2
\* Packets the host sends in one run of the Teensy 3.x interface.
MaxTeensyPackets == 3
\* Addresses at which display elements are constructed, and addresses of
\* the displays they draw to.
MaxElements == 4
MaxDisplays == 3
\* Calls of sendImpl in one run of the send overloads, and the longest
\* SysEx handed to them.
MaxImplCalls == 1
MaxSendLength == 7
\* Packets received in one run of the USB read() with SysEx packets.
MaxReadPackets == 4
\* SysEx packets received in one run with two cables.
MaxCablePackets == 4
\* Send calls made by the concurrent senders in one run.
MaxCalls == 3
\* Messages sent and read back in one run.
MaxSends == 1
\* Capacity of the parser's SysEx accumulation buffer (scaled down).
SYSEX_BUFFER_SIZE == 2
\* SYSEX_BUFFER_SIZE of the build in the runs of the USB read() with SysEx
\* packets: a buffer that holds the payload of more than one packet.
LargeBufferSize == 4

(***************************************************************************)
(* enum class MIDIMessageType                                              *)
(***************************************************************************)
NOTE_OFF == 128
NOTE_ON == 144
KEY_PRESSURE == 160
CONTROL_CHANGE == 176
PROGRAM_CHANGE == 192
CHANNEL_PRESSURE == 208
PITCH_BEND == 224
SYSEX_START == 240
TUNE_REQUEST == 246
SYSEX_END == 247
TIMING_CLOCK == 248
UNDEFINED_REALTIME_1 == 249
START == 250
CONTINUE == 251
STOP == 252
UNDEFINED_REALTIME_2 == 253
ACTIVE_SENSING == 254
RESET == 255

(***************************************************************************)
(* MIDIReadEvent: the outcome of feeding one byte, and of one read().      *)
(***************************************************************************)
NO_MESSAGE == "NO_MESSAGE"
CHANNEL_MESSAGE == "CHANNEL_MESSAGE"
SYSEX_MESSAGE == "SYSEX_MESSAGE"
SYSEX_CHUNK == "SYSEX_CHUNK"
REALTIME_MESSAGE == "REALTIME_MESSAGE"

(***************************************************************************)
(* struct ChannelMessage                                                   *)
(***************************************************************************)
\* The constructor with the two data initialisers exchanged.
ChannelMessage_dataSwapped(header, data1, data2, cable) ==
    [header |-> header, data1 |-> data2, data2 |-> data1, cable |-> cable]

ChannelMessage(header, data1, data2, cable) ==
    [header |-> header, data1 |-> data1, data2 |-> data2, cable |-> cable]

\* An equality that leaves the cable out of the comparison.
operator_eq_ignoresCable(this, other) ==
    /\ this.header = other.header /\ this.data1 = other.data1
    /\ this.data2 = other.data2

\* ChannelMessage::operator==
operator_eq(this, other) ==
    /\ this.header = other.header /\ this.data1 = other.data1
    /\ this.data2 = other.data2 /\ this.cable = other.cable

\* ChannelMessage::operator!=
operator_ne(this, other) == ~operator_eq(this, other)

\* header & 0xF0
getMessageType(header) == (header \div 16) * 16

\* header & 0x0F
getChannel(header) == header % 16

\* The test without its Pitch Bend disjunct.
hasTwoDataBytes_pitchBendOneByte(header) ==
    getMessageType(header) <= CONTROL_CHANGE

\* The test with the comparison turned around.
hasTwoDataBytes_reversed(header) ==
    \/ getMessageType(header) >= CONTROL_CHANGE
    \/ getMessageType(header) = PITCH_BEND

\* The test with Program Change on the side of the two-byte types.
hasTwoDataBytes_programChangeTwoBytes(header) ==
    \/ getMessageType(header) <= PROGRAM_CHANGE
    \/ getMessageType(header) = PITCH_BEND

hasTwoDataBytes(header) ==
    \/ getMessageType(header) <= CONTROL_CHANGE
    \/ getMessageType(header) = PITCH_BEND

\* The test without its upper bound.
hasValidHeader_noUpperBound(header) == getMessageType(header) >= NOTE_OFF

hasValidHeader(header) ==
    /\ getMessageType(header) >= NOTE_OFF
    /\ getMessageType(header) <= PITCH_BEND

(***************************************************************************)
(* struct SysExMessage: a view (data, length, cable); length is a uint8_t. *)
(***************************************************************************)
\* The constructor with the length and cable arguments exchanged.
SysExMessage_lengthCableSwapped(data, length, cable) ==
    [data |-> data, length |-> cable % 256, cable |-> length % 256]

SysExMessage(data, length, cable) ==
    [data |-> data, length |-> length % 256, cable |-> cable]

(***************************************************************************)
(* struct RealTimeMessage                                                  *)
(***************************************************************************)
\* The constructor with its two initialisers exchanged.
RealTimeMessage_swapped(message, cable) ==
    [message |-> cable, cable |-> message]

RealTimeMessage(message, cable) == [message |-> message, cable |-> cable]

(***************************************************************************)
(* SerialMIDI_Parser (specification section 4.1).                          *)
(*   state          Idle, ChannelMessage1, ChannelMessage2 or SysExBody    *)
(*   runningStatus  last channel-voice status byte, 0 when cleared         *)
(*   data1, data2   data bytes collected for the channel message          *)
(*   sysexBuffer    the fixed accumulation buffer                          *)
(*   sysexLength    its write index                                        *)
(*   sysexMsgLength length of the SysEx view delivered by the last event   *)
(*   rtMessage      the real-time byte delivered by the last event         *)
(***************************************************************************)
Idle == "Idle"
ChannelMessage1 == "ChannelMessage1"
ChannelMessage2 == "ChannelMessage2"
SysExBody == "SysExBody"

ParserInit ==
    [state |-> Idle, runningStatus |-> 0, data1 |-> 0, data2 |-> 0,
     sysexBuffer |-> [i \in 1..SYSEX_BUFFER_SIZE |-> 0], sysexLength |-> 0,
     sysexMsgLength |-> 0, rtMessage |-> 0]

\* A reset that ends the message in progress but keeps the running status.
reset_keepsRunningStatus(p) == [p EXCEPT !.state = Idle, !.sysexLength = 0]

\* Resetting the parser (on reconnect): running status and any SysEx in
\* progress are cleared.
reset(p) ==
    [p EXCEPT !.state = Idle, !.runningStatus = 0, !.sysexLength = 0]

isData(b) == b < NOTE_OFF
isRealTime(b) == b >= TIMING_CLOCK /\ b <= RESET
isChannelStatus(b) == b >= NOTE_OFF /\ b < SYSEX_START

\* Real-time byte: reported at once, nothing else is touched.
parseRealTime(p, b) ==
    [parser |-> [p EXCEPT !.rtMessage = b], event |-> REALTIME_MESSAGE]

\* A channel status byte that is ignored while a SysEx is accumulated.
parseChannelStatus_ignoredInSysEx(p, b) ==
    IF p.state = SysExBody
    THEN [parser |-> p, event |-> NO_MESSAGE]
    ELSE [parser |-> [p EXCEPT !.state = ChannelMessage1,
                               !.runningStatus = b],
          event |-> NO_MESSAGE]

\* Channel-voice status byte: new channel message, running status updated,
\* an unterminated SysEx is dropped.
parseChannelStatus(p, b) ==
    [parser |-> [p EXCEPT !.state = ChannelMessage1, !.runningStatus = b,
                          !.sysexLength = 0],
     event |-> NO_MESSAGE]

\* SysEx Start that leaves the running status register alone.
parseSysExStart_keepsRunningStatus(p) ==
    [parser |-> [p EXCEPT !.state = SysExBody, !.sysexLength = 0],
     event |-> NO_MESSAGE]

\* SysEx Start: accumulation begins at index 0, running status is cleared.
parseSysExStart(p) ==
    [parser |-> [p EXCEPT !.state = SysExBody, !.runningStatus = 0,
                          !.sysexLength = 0],
     event |-> NO_MESSAGE]

\* SysEx End that delivers the message but keeps accumulating.
parseSysExEnd_staysInSysEx(p) ==
    IF p.state = SysExBody
    THEN [parser |-> [p EXCEPT !.sysexMsgLength = p.sysexLength,
                               !.sysexLength = 0],
          event |-> SYSEX_MESSAGE]
    ELSE [parser |-> [p EXCEPT !.state = Idle], event |-> NO_MESSAGE]

\* SysEx End: the accumulated bytes are delivered; outside a SysEx the byte
\* is discarded.
parseSysExEnd(p) ==
    IF p.state = SysExBody
    THEN [parser |-> [p EXCEPT !.state = Idle,
                               !.sysexMsgLength = p.sysexLength,
                               !.sysexLength = 0],
          event |-> SYSEX_MESSAGE]
    ELSE [parser |-> [p EXCEPT !.state = Idle], event |-> NO_MESSAGE]

\* Tune Request handled like a real-time byte: a SysEx goes on after it.
parseTuneRequest_keepsSysEx(p) ==
    [parser |-> [p EXCEPT !.rtMessage = TUNE_REQUEST],
     event |-> REALTIME_MESSAGE]

\* Tune Request: single byte, complete at once; it ends a SysEx in progress.
parseTuneRequest(p) ==
    IF p.state = SysExBody
    THEN [parser |-> [p EXCEPT !.state = Idle, !.sysexLength = 0,
                               !.rtMessage = TUNE_REQUEST],
          event |-> REALTIME_MESSAGE]
    ELSE [parser |-> [p EXCEPT !.rtMessage = TUNE_REQUEST],
          event |-> REALTIME_MESSAGE]

\* Undefined status byte (0xF1..0xF5): discarded, the parser is Idle.
parseUndefined(p) ==
    [parser |-> [p EXCEPT !.state = Idle, !.sysexLength = 0],
     event |-> NO_MESSAGE]

\* SysEx data that is appended without ever delivering the full buffer.
parseSysExData_neverChunks(p, b) ==
    [parser |-> [p EXCEPT !.sysexBuffer =
                              [p.sysexBuffer EXCEPT ![p.sysexLength + 1] = b],
                          !.sysexLength = p.sysexLength + 1],
     event |-> NO_MESSAGE]

\* Data byte while a SysEx is accumulated: appended; a full buffer is
\* delivered as a chunk and the index starts again at 0.
parseSysExData(p, b) ==
    LET buf == [p.sysexBuffer EXCEPT ![p.sysexLength + 1] = b]
        n == p.sysexLength + 1
    IN IF n = SYSEX_BUFFER_SIZE
       THEN [parser |-> [p EXCEPT !.sysexBuffer = buf, !.sysexLength = 0,
                                  !.sysexMsgLength = n],
             event |-> SYSEX_CHUNK]
       ELSE [parser |-> [p EXCEPT !.sysexBuffer = buf, !.sysexLength = n],
             event |-> NO_MESSAGE]

\* Channel data handling without the test for a cleared running status.
parseChannelData_noStatusCheck(p, b) ==
    IF p.state = ChannelMessage2
    THEN [parser |-> [p EXCEPT !.data2 = b, !.state = Idle],
          event |-> CHANNEL_MESSAGE]
    ELSE IF hasTwoDataBytes(p.runningStatus)
    THEN [parser |-> [p EXCEPT !.data1 = b, !.data2 = 0,
                               !.state = ChannelMessage2],
          event |-> NO_MESSAGE]
    ELSE [parser |-> [p EXCEPT !.data1 = b, !.data2 = 0, !.state = Idle],
          event |-> CHANNEL_MESSAGE]

\* Data byte of a channel message (explicit status or running status).
parseChannelData(p, b) ==
    IF p.state = ChannelMessage2
    THEN [parser |-> [p EXCEPT !.data2 = b, !.state = Idle],
          event |-> CHANNEL_MESSAGE]
    ELSE IF p.runningStatus = 0
    THEN [parser |-> [p EXCEPT !.state = Idle], event |-> NO_MESSAGE]
    ELSE IF hasTwoDataBytes(p.runningStatus)
    THEN [parser |-> [p EXCEPT !.data1 = b, !.data2 = 0,
                               !.state = ChannelMessage2],
          event |-> NO_MESSAGE]
    ELSE [parser |-> [p EXCEPT !.data1 = b, !.data2 = 0, !.state = Idle],
          event |-> CHANNEL_MESSAGE]

\* SerialMIDI_Parser::parse(midiByte)
parse(p, b) ==
    IF isRealTime(b) THEN parseRealTime(p, b)
    ELSE IF isChannelStatus(b) THEN parseChannelStatus(p, b)
    ELSE IF b = SYSEX_START THEN parseSysExStart(p)
    ELSE IF b = SYSEX_END THEN parseSysExEnd(p)
    ELSE IF b = TUNE_REQUEST THEN parseTuneRequest(p)
    ELSE IF ~isData(b) THEN parseUndefined(p)
    ELSE IF p.state = SysExBody THEN parseSysExData(p, b)
    ELSE parseChannelData(p, b)

\* Accessors, valid after the corresponding event.
getChannelMessage(p) == ChannelMessage(p.runningStatus, p.data1, p.data2, 0)
getSysExMessage(p) == SysExMessage(p.sysexBuffer, p.sysexMsgLength, 0)
getRealTimeMessage(p) == RealTimeMessage(p.rtMessage, 0)

(***************************************************************************)
(* USBMIDI_Parser (specification section 4.2): one 4-byte packet at a      *)
(* time.  Byte 0 holds the cable number (high nibble) and the code index   *)
(* number (low nibble).  The packets modelled here are the channel-voice   *)
(* packets (CIN 0x8..0xE), the single-byte packets (CIN 0xF) and the SysEx *)
(* packets (CIN 0x4..0x7); a packet of another code index number completes *)
(* no message.  The SysEx of each cable is accumulated by the rules of     *)
(* section 4.1 in a buffer of its own: SysEx Start begins at index 0, data *)
(* bytes are appended, a full buffer is delivered as a chunk, SysEx End    *)
(* delivers what was accumulated since the last chunk.  parse() gives one  *)
(* result for a packet, so no packet may complete two events, and nothing  *)
(* is to be lost; for a buffer that holds the payload of a packet (three   *)
(* bytes or more) this is so by two rules on packet boundaries:            *)
(*   - a buffer filled by the byte before the SysEx End of the same packet *)
(*     is delivered by the complete event, not as a chunk;                 *)
(*   - after a packet that leaves less than two bytes free, too few for    *)
(*     the data of a packet that ends the SysEx, the bytes accumulated are *)
(*     delivered as a chunk.                                               *)
(* A view is the buffer as it is when its event is completed.              *)
(*   SYSEX_BUFFER_SIZE  the size of the buffer of each cable: the          *)
(*             SYSEX_BUFFER_SIZE of the build the parser belongs to        *)
(*   msg       the channel message delivered by the last CHANNEL_MESSAGE   *)
(*   rt        the real-time message delivered by the last REALTIME_MESSAGE*)
(*   sysexMsg  the SysEx view delivered by the last SysEx event            *)
(*   sysex     for each cable, the SysEx accumulation of that cable:       *)
(*             whether a SysEx is being received, the buffer and the write *)
(*             index                                                       *)
(***************************************************************************)
Cables == 0..15

\* The parser of a build with SYSEX_BUFFER_SIZE = size.
UsbParserOf(size) ==
    [SYSEX_BUFFER_SIZE |-> size,
     msg |-> ChannelMessage(0, 0, 0, 0), rt |-> RealTimeMessage(0, 0),
     sysexMsg |-> SysExMessage([i \in 1..size |-> 0], 0, 0),
     sysex |-> [c \in Cables |->
                   [receiving |-> FALSE, buffer |-> [i \in 1..size |-> 0],
                    length |-> 0]]]

UsbParserInit == UsbParserOf(SYSEX_BUFFER_SIZE)

\* The parser of the build with the larger buffer.
LargeUsbParserInit == UsbParserOf(LargeBufferSize)

\* Cable number and code index number of a packet.
packetCable(packet) == packet[1] \div 16
packetCIN(packet) == packet[1] % 16

\* The number of payload bytes of a SysEx packet with code index number cin.
payloadLength(cin) ==
    CASE cin = 4 -> 3
      [] cin = 5 -> 1
      [] cin = 6 -> 2
      [] cin = 7 -> 3
      [] OTHER -> 0

\* The payload bytes of a SysEx packet.
payload(packet) == SubSeq(packet, 2, 1 + payloadLength(packetCIN(packet)))

\* The SysEx event e with the buffer and the length of its view; NO_MESSAGE
\* with an empty view when no event is completed.
SysExEvent(e, buffer, length) ==
    [event |-> e, data |-> buffer, length |-> length]

\* The payload byte b is given to the accumulation r.sysex of a cable, whose
\* buffer has size bytes; r.result is the SysEx event that the bytes of the
\* packet before b completed, and endFollows tells that the next byte of
\* the packet is SysEx End.
sysExByte(r, size, b, endFollows) ==
    LET a == r.sysex
    IN IF b = SYSEX_START
       THEN [r EXCEPT !.sysex = [a EXCEPT !.receiving = TRUE, !.length = 0]]
       ELSE IF ~a.receiving
       THEN r
       ELSE IF b = SYSEX_END
       THEN [sysex |-> [a EXCEPT !.receiving = FALSE, !.length = 0],
             result |-> SysExEvent(SYSEX_MESSAGE, a.buffer, a.length)]
       ELSE IF isRealTime(b)
       THEN r
       ELSE IF ~isData(b)
       THEN [r EXCEPT !.sysex = [a EXCEPT !.receiving = FALSE, !.length = 0]]
       ELSE LET buf == [a.buffer EXCEPT ![a.length + 1] = b]
                n == a.length + 1
            IN IF n = size /\ ~endFollows
               THEN [sysex |-> [a EXCEPT !.buffer = buf, !.length = 0],
                     result |-> SysExEvent(SYSEX_CHUNK, buf, n)]
               ELSE [r EXCEPT !.sysex =
                                  [a EXCEPT !.buffer = buf, !.length = n]]

\* The payload bytes of a SysEx packet are given to the accumulation
\* r.sysex one by one; at the end of the packet, if it completed no event
\* and leaves less than two bytes free, the bytes accumulated are delivered
\* as a chunk.
RECURSIVE feedSysEx(_, _, _)
feedSysEx(r, size, bytes) ==
    IF Len(bytes) = 0
    THEN IF /\ r.result.event = NO_MESSAGE
            /\ r.sysex.receiving
            /\ size - r.sysex.length < 2
         THEN [sysex |-> [r.sysex EXCEPT !.length = 0],
               result |-> SysExEvent(SYSEX_CHUNK, r.sysex.buffer,
                                     r.sysex.length)]
         ELSE r
    ELSE feedSysEx(sysExByte(r, size, Head(bytes),
                             Len(bytes) >= 2 /\ bytes[2] = SYSEX_END),
                   size, Tail(bytes))

\* A packet parser with one accumulation shared by all cables.
usbParseSysEx_sharedBuffer(p, packet) ==
    LET cn == packetCable(packet)
        r == feedSysEx([sysex |-> p.sysex[0],
                        result |-> SysExEvent(NO_MESSAGE, <<>>, 0)],
                       p.SYSEX_BUFFER_SIZE, payload(packet))
    IN [parser |->
            [p EXCEPT !.sysex[0] = r.sysex,
                      !.sysexMsg =
                          IF r.result.event = NO_MESSAGE THEN @
                          ELSE SysExMessage(r.result.data,
                                            r.result.length, cn)],
        event |-> r.result.event]

\* A SysEx packet (CIN 0x4..0x7).
usbParseSysEx(p, packet) ==
    LET cn == packetCable(packet)
        r == feedSysEx([sysex |-> p.sysex[cn],
                        result |-> SysExEvent(NO_MESSAGE, <<>>, 0)],
                       p.SYSEX_BUFFER_SIZE, payload(packet))
    IN [parser |->
            [p EXCEPT !.sysex[cn] = r.sysex,
                      !.sysexMsg =
                          IF r.result.event = NO_MESSAGE THEN @
                          ELSE SysExMessage(r.result.data,
                                            r.result.length, cn)],
        event |-> r.result.event]

usbParse(p, packet) ==
    IF packetCIN(packet) >= 8 /\ packetCIN(packet) <= 14
    THEN [parser |-> [p EXCEPT !.msg = ChannelMessage(packet[2], packet[3],
                                           packet[4], packetCable(packet))],
          event |-> CHANNEL_MESSAGE]
    ELSE IF packetCIN(packet) = 15
    THEN [parser |-> [p EXCEPT !.rt = RealTimeMessage(packet[2],
                                                      packetCable(packet))],
          event |-> REALTIME_MESSAGE]
    ELSE IF packetCIN(packet) >= 4 /\ packetCIN(packet) <= 7
    THEN usbParseSysEx(p, packet)
    ELSE [parser |-> p, event |-> NO_MESSAGE]

\* What the caller of the USB interface can observe after event e.
UsbObserved(p, e) ==
    [event |-> e,
     message |-> CASE e = CHANNEL_MESSAGE -> p.msg
                   [] e = REALTIME_MESSAGE -> p.rt
                   [] e \in {SYSEX_MESSAGE, SYSEX_CHUNK} -> p.sysexMsg
                   [] OTHER -> <<>>]

(***************************************************************************)
(* StreamMIDI_Interface                                                    *)
(*   stream  bytes that arrived on the Stream and were not read yet        *)
(*   parser  the SerialMIDI_Parser member                                  *)
(*   result  the value returned by the last read()                         *)
(* History kept for the properties:                                        *)
(*   fed     every byte handed to the parser so far, in order              *)
(*   log     for each byte of fed, the event it produced and the message   *)
(*           the accessors exposed right after it                          *)
(*   returned  for each read() that returned an event, the event and the   *)
(*           message the accessors exposed to the caller                   *)
(* USBMIDI_Interface                                                       *)
(*   usbRx      packets received from the host and not read yet            *)
(*   usbParser  the USBMIDI_Parser member                                  *)
(*   usbResult  the value returned by the last read()                      *)
(*   usbFed     every packet handed to the parser so far, in order         *)
(*   usbLog     for each packet of usbFed, what the caller could observe   *)
(*   usbReturned  as returned, for the read() of the USB interface         *)
(* Sending:                                                                *)
(*   tx       what the sends wrote to the Stream, each byte with its call  *)
(*   usbTx    the packets the sends wrote to the USB endpoint and their    *)
(*            flush() calls, likewise                                      *)
(*   sent     the messages handed to send, in order, with the transport    *)
(*   pending  for each sender, what its send call in progress has still to *)
(*            write                                                        *)
(*   mutex    the sender that holds the stream interface's mutex, 0 if none*)
(* ChannelMessage:                                                         *)
(*   checked  the last call of a predicate, comparison, constructor or     *)
(*            setter of ChannelMessage or SysExMessage with its arguments  *)
(*            and what it returned or left behind; empty before any        *)
(* DisplayElement:                                                         *)
(*   elements  the static list DisplayElement::elements, as the sequence   *)
(*             of the addresses of the elements linked in it               *)
(*   display   for each element that was constructed and not destroyed,    *)
(*             the address of the display it draws to                      *)
(*   destroyed the addresses of the elements that were destroyed, until an *)
(*             element is constructed at the address again                 *)
(* USBMIDI_Interface on Teensy 3.x:                                        *)
(*   usb_configuration  whether the host has configured the device         *)
(*   teensyRx     the packets the USB stack holds for usb_rx, in order     *)
(*   rx_packet    the member rx_packet: a sequence that holds the packet   *)
(*                pointed to, empty for nullptr                            *)
(*   teensyParser the USBMIDI_Parser member                                *)
(*   teensyResult the value returned by the last read()                    *)
(*   teensyTrace  what happened to the packets, in order: each packet      *)
(*                usb_rx returned and the call that returned it, each      *)
(*                parse call with the packet it read from and the index,   *)
(*                and each usb_free                                        *)
(* USBMIDI_Interface on Teensy++ 2.0:                                      *)
(*   SREG      the status register: 128 with the global interrupt flag     *)
(*             set, 0 with interrupts disabled                             *)
(*   ppTx      the packets written to UEDATX, four bytes each              *)
(*   ppParser  the USBMIDI_Parser member                                   *)
(*   ppResult  the value returned by the last read()                       *)
(*   ppLog     for each call of writeUSBPacket() and read(), the function, *)
(*             the path by which it returned, and SREG before and after    *)
(*   ppCall    the call of writeUSBPacket() or read() in progress, empty   *)
(*             if none, with SREG as it was when the function was called.  *)
(*             writeUSBPacket(): where it is (at "poll" before the test of *)
(*             RWAL, at "wait" after the SREG = intr_state of the wait     *)
(*             loop), its locals intr_state and timeout, and the rounds of *)
(*             the wait so far.  read(): where it is (at "parse" after the *)
(*             SREG = intr_state of a round, at "fetch" before the next    *)
(*             round), the round i and the four bytes in data              *)
(* Bankable::MIDIRotaryEncoder:                                            *)
(*   pulsesPerStep, speedMultiply  the members set by the constructor;     *)
(*                     pulsesPerStep is 0 before the construction          *)
(*   encoder           the position that encoder.read() returns            *)
(*   previousPosition  the member previousPosition                         *)
(*   address           the address that is active in the bank              *)
(*   sends             the calls of sender.send(): the delta, the address  *)
(*                     and the number of the update() that made the call   *)
(*   updates           for each update() so far, the position it read and  *)
(*                     the address that was active                         *)
(* GenericSwitchSelector:                                                  *)
(*   setting   the setting that is selected                                *)
(*   button    for each update(), the state that button.update() returned  *)
(*   setCalls  the calls of set(): the argument and the number of the      *)
(*             update() that made the call                                 *)
(***************************************************************************)
VARIABLES stream, parser, result, fed, log, returned,
          usbRx, usbParser, usbResult, usbFed, usbLog, usbReturned,
          tx, usbTx, sent, pending, mutex,
          checked,
          elements, display, destroyed,
          usb_configuration, teensyRx, rx_packet, teensyParser, teensyResult,
          teensyTrace,
          SREG, ppTx, ppParser, ppResult, ppLog, ppCall,
          pulsesPerStep, speedMultiply, encoder, previousPosition, address,
          sends, updates,
          setting, button, setCalls

streamVars == <<stream, parser, result, fed, log, returned>>
usbVars == <<usbRx, usbParser, usbResult, usbFed, usbLog, usbReturned>>
sendVars == <<tx, usbTx, sent, pending, mutex>>
ifaceVars == <<streamVars, usbVars, sendVars>>
typeVars == <<checked>>
displayVars == <<elements, display, destroyed>>
teensyVars == <<usb_configuration, teensyRx, rx_packet, teensyParser,
                teensyResult, teensyTrace>>
ppVars == <<SREG, ppTx, ppParser, ppResult, ppLog, ppCall>>
encoderVars == <<pulsesPerStep, speedMultiply, encoder, previousPosition,
                 address, sends, updates>>
selectorVars == <<setting, button, setCalls>>
moreVars == <<ppVars, encoderVars, selectorVars>>
otherVars == <<typeVars, displayVars, teensyVars, moreVars>>

vars == <<ifaceVars, otherVars>>

\* The bytes of the SysEx view m: length bytes starting at m.data.
viewBytes(m) == SubSeq(m.data, 1, m.length)

\* What the caller can observe after the parser returned event e, and the
\* parser as it is then.
Observed(p, e) ==
    [event |-> e,
     bytes |-> CASE e = CHANNEL_MESSAGE ->
                      <<getChannelMessage(p).header, getChannelMessage(p).data1,
                        getChannelMessage(p).data2>>
                 [] e \in {SYSEX_MESSAGE, SYSEX_CHUNK} ->
                      viewBytes(getSysExMessage(p))
                 [] e = REALTIME_MESSAGE -> <<getRealTimeMessage(p).message>>
                 [] OTHER -> <<>>,
     parser |-> p]

\* What the caller gets from a read() that returned event e.
Returned(p, e) == [event |-> e, bytes |-> Observed(p, e).bytes]

\* The loop without the return inside: it parses until no byte is left.
RECURSIVE readLoop_noReturnInside(_, _, _)
readLoop_noReturnInside(p, s, seen) ==
    IF Len(s) = 0
    THEN [parser |-> p, stream |-> s, result |-> NO_MESSAGE, seen |-> seen]
    ELSE LET r == parse(p, Head(s))
         IN readLoop_noReturnInside(r.parser, Tail(s),
                                    Append(seen, Observed(r.parser, r.event)))

\* A loop that goes on taking bytes after the first event and returns the
\* event when the stream is empty.
RECURSIVE readLoop_readsOn(_, _, _, _)
readLoop_readsOn(p, s, seen, e) ==
    IF Len(s) = 0
    THEN [parser |-> p, stream |-> s, result |-> e, seen |-> seen]
    ELSE LET r == parse(p, Head(s))
         IN readLoop_readsOn(r.parser, Tail(s),
                             Append(seen, Observed(r.parser, r.event)),
                             IF e = NO_MESSAGE THEN r.event ELSE e)

readLoop_returnsAtEnd(p, s, seen) == readLoop_readsOn(p, s, seen, NO_MESSAGE)

\* The loop of StreamMIDI_Interface::read(): parse while bytes are
\* available, return at the first result that is not NO_MESSAGE.
RECURSIVE readLoop(_, _, _)
readLoop(p, s, seen) ==
    IF Len(s) = 0
    THEN [parser |-> p, stream |-> s, result |-> NO_MESSAGE, seen |-> seen]
    ELSE LET r == parse(p, Head(s))
             o == Append(seen, Observed(r.parser, r.event))
         IN IF r.event # NO_MESSAGE
            THEN [parser |-> r.parser, stream |-> Tail(s),
                  result |-> r.event, seen |-> o]
            ELSE readLoop(r.parser, Tail(s), o)

\* A read() that starts every call with a new parser.
read_newParser(p, s) == readLoop(ParserInit, s, <<>>)

\* StreamMIDI_Interface::read()
read(p, s) == readLoop(p, s, <<>>)

(***************************************************************************)
(* Bytes that arrive in the model: three data bytes, a two-data-byte and a *)
(* one-data-byte channel status, SysEx Start and End, and Timing Clock.    *)
(***************************************************************************)
DataBytes == {64, 65, 127}
Bytes == DataBytes \cup {NOTE_ON, PROGRAM_CHANGE, SYSEX_START, SYSEX_END,
                         TIMING_CLOCK}

(***************************************************************************)
(* A second input alphabet: a status byte of each of the seven             *)
(* channel-voice types, on different channels, two data bytes and Timing   *)
(* Clock.                                                                  *)
(***************************************************************************)
TypeBytes == {64, 127, NOTE_OFF + 1, NOTE_ON, KEY_PRESSURE + 2,
              CONTROL_CHANGE + 3, PROGRAM_CHANGE + 4, CHANNEL_PRESSURE + 5,
              PITCH_BEND + 15, TIMING_CLOCK}

(***************************************************************************)
(* USBMIDI_Interface::read(): at most (SYSEX_BUFFER_SIZE + 2) / 3 packets  *)
(* per call; a packet whose first byte is 0 means that none was received.  *)
(* SYSEX_BUFFER_SIZE is the one of the build, which the parser holds.      *)
(***************************************************************************)
NoPacket == <<0, 0, 0, 0>>

\* readUSBPacket(): the next packet of the receive queue q, if any.
readUSBPacket(q) ==
    IF Len(q) = 0 THEN [packet |-> NoPacket, rx |-> q]
    ELSE [packet |-> Head(q), rx |-> Tail(q)]

\* The loop without its bound on the number of packets.
RECURSIVE usbReadLoop_unbounded(_, _, _, _, _)
usbReadLoop_unbounded(i, p, q, packets, seen) ==
    LET rd == readUSBPacket(q)
    IN IF rd.packet[1] = 0
       THEN [parser |-> p, rx |-> rd.rx, result |-> NO_MESSAGE,
             packets |-> packets, seen |-> seen, calls |-> i + 1]
       ELSE LET r == usbParse(p, rd.packet)
                ps == Append(packets, rd.packet)
                o == Append(seen, UsbObserved(r.parser, r.event))
            IN IF r.event # NO_MESSAGE
               THEN [parser |-> r.parser, rx |-> rd.rx, result |-> r.event,
                     packets |-> ps, seen |-> o, calls |-> i + 1]
               ELSE usbReadLoop_unbounded(i + 1, r.parser, rd.rx, ps, o)

\* The loop without the return at a result that is not NO_MESSAGE.
RECURSIVE usbReadLoop_ignoresResult(_, _, _, _, _)
usbReadLoop_ignoresResult(i, p, q, packets, seen) ==
    IF ~(i < (p.SYSEX_BUFFER_SIZE + 2) \div 3)
    THEN [parser |-> p, rx |-> q, result |-> NO_MESSAGE,
          packets |-> packets, seen |-> seen, calls |-> i]
    ELSE LET rd == readUSBPacket(q)
         IN IF rd.packet[1] = 0
            THEN [parser |-> p, rx |-> rd.rx, result |-> NO_MESSAGE,
                  packets |-> packets, seen |-> seen, calls |-> i + 1]
            ELSE LET r == usbParse(p, rd.packet)
                 IN usbReadLoop_ignoresResult(i + 1, r.parser, rd.rx,
                        Append(packets, rd.packet),
                        Append(seen, UsbObserved(r.parser, r.event)))

RECURSIVE usbReadLoop(_, _, _, _, _)
usbReadLoop(i, p, q, packets, seen) ==
    IF ~(i < (p.SYSEX_BUFFER_SIZE + 2) \div 3)
    THEN [parser |-> p, rx |-> q, result |-> NO_MESSAGE,
          packets |-> packets, seen |-> seen, calls |-> i]
    ELSE LET rd == readUSBPacket(q)
         IN IF rd.packet[1] = 0
            THEN [parser |-> p, rx |-> rd.rx, result |-> NO_MESSAGE,
                  packets |-> packets, seen |-> seen, calls |-> i + 1]
            ELSE LET r == usbParse(p, rd.packet)
                     ps == Append(packets, rd.packet)
                     o == Append(seen, UsbObserved(r.parser, r.event))
                 IN IF r.event # NO_MESSAGE
                    THEN [parser |-> r.parser, rx |-> rd.rx,
                          result |-> r.event, packets |-> ps, seen |-> o,
                          calls |-> i + 1]
                    ELSE usbReadLoop(i + 1, r.parser, rd.rx, ps, o)

usbRead(p, q) == usbReadLoop(0, p, q, <<>>, <<>>)

(***************************************************************************)
(* Sending.  Each sendImpl is given as what it writes: the bytes written   *)
(* to the Stream, or the packets written to the USB endpoint.              *)
(***************************************************************************)
\* a | b
RECURSIVE BitOr(_, _)
BitOr(a, b) ==
    IF a = 0 THEN b
    ELSE IF b = 0 THEN a
    ELSE (IF a % 2 = 1 \/ b % 2 = 1 THEN 1 ELSE 0)
         + 2 * BitOr(a \div 2, b \div 2)

\* StreamMIDI_Interface::sendImpl(header, d1, d2, cn)
StreamMIDI_sendImpl(header, d1, d2, cn) == <<header, d1, d2>>

\* StreamMIDI_Interface::sendImpl(header, d1, cn)
StreamMIDI_sendImpl1(header, d1, cn) == <<header, d1>>

\* StreamMIDI_Interface::sendImpl(data, length, cn): stream.write(data,
\* length) writes the first length bytes of data.
\* A SysEx send that writes the whole buffer, whatever the length given.
StreamMIDI_sendImplSysEx_wholeBuffer(data, length, cn) == data

StreamMIDI_sendImplSysEx(data, length, cn) == SubSeq(data, 1, length)

\* StreamMIDI_Interface::sendImpl(rt, cn)
StreamMIDI_sendImplRT(rt, cn) == <<rt>>

\* A packet writer that puts the cable number in the low nibble.
writeUSBPacket_cableNotShifted(cn, cin, d0, d1, d2) ==
    <<BitOr(cn, cin), d0, d1, d2>>

\* writeUSBPacket(cn, cin, d0, d1, d2): the packet it hands to the endpoint.
writeUSBPacket(cn, cin, d0, d1, d2) ==
    <<BitOr((cn * 16) % 256, cin), d0, d1, d2>>

\* USBMIDI_Interface::sendImpl(m, c, d1, d2, cn)
\* A channel-message send whose status byte lacks the channel.
USBMIDI_sendImpl_statusWithoutChannel(m, c, d1, d2, cn) ==
    <<writeUSBPacket(cn, m \div 16, m, d1, d2)>>

USBMIDI_sendImpl(m, c, d1, d2, cn) ==
    <<writeUSBPacket(cn, m \div 16, BitOr(m, c), d1, d2)>>

\* USBMIDI_Interface::sendImpl(m, c, d1, cn)
USBMIDI_sendImpl1(m, c, d1, cn) == USBMIDI_sendImpl(m, c, d1, 0, cn)

\* USBMIDI_Interface::sendImpl(data, length, cn): packets of three bytes
\* with CIN 0x4 while more than three bytes are left, then one packet with
\* CIN 0x7, 0x6 or 0x5 for the last three, two or one bytes.
\* A send that does not advance the data pointer.
RECURSIVE USBMIDI_sendImplSysEx_dataNotAdvanced(_, _, _)
USBMIDI_sendImplSysEx_dataNotAdvanced(data, length, cn) ==
    IF length > 3
    THEN <<writeUSBPacket(cn, 4, data[1], data[2], data[3])>>
         \o USBMIDI_sendImplSysEx_dataNotAdvanced(data, length - 3, cn)
    ELSE CASE length = 3 ->
                <<writeUSBPacket(cn, 7, data[1], data[2], data[3])>>
           [] length = 2 -> <<writeUSBPacket(cn, 6, data[1], data[2], 0)>>
           [] length = 1 -> <<writeUSBPacket(cn, 5, data[1], 0, 0)>>
           [] OTHER -> <<>>

RECURSIVE USBMIDI_sendImplSysEx_endsWithContinue(_, _, _)
USBMIDI_sendImplSysEx_endsWithContinue(data, length, cn) ==
    IF length >= 3
    THEN <<writeUSBPacket(cn, 4, data[1], data[2], data[3])>>
         \o USBMIDI_sendImplSysEx_endsWithContinue(
                SubSeq(data, 4, Len(data)), length - 3, cn)
    ELSE CASE length = 2 -> <<writeUSBPacket(cn, 6, data[1], data[2], 0)>>
           [] length = 1 -> <<writeUSBPacket(cn, 5, data[1], 0, 0)>>
           [] OTHER -> <<>>

RECURSIVE USBMIDI_sendImplSysEx(_, _, _)
USBMIDI_sendImplSysEx(data, length, cn) ==
    IF length > 3
    THEN <<writeUSBPacket(cn, 4, data[1], data[2], data[3])>>
         \o USBMIDI_sendImplSysEx(SubSeq(data, 4, Len(data)), length - 3, cn)
    ELSE CASE length = 3 ->
                <<writeUSBPacket(cn, 7, data[1], data[2], data[3])>>
           [] length = 2 -> <<writeUSBPacket(cn, 6, data[1], data[2], 0)>>
           [] length = 1 -> <<writeUSBPacket(cn, 5, data[1], 0, 0)>>
           [] OTHER -> <<>>

\* A real-time send that uses the code index number of a one-byte SysEx end.
USBMIDI_sendImplRT_sysExEndCIN(rt, cn) == <<writeUSBPacket(cn, 5, rt, 0, 0)>>

\* USBMIDI_Interface::sendImpl(rt, cn)
USBMIDI_sendImplRT(rt, cn) == <<writeUSBPacket(cn, 15, rt, 0, 0)>>

\* Sending a channel message: the sendImpl with as many data bytes as the
\* message type has.
StreamMIDI_send(msg) ==
    IF hasTwoDataBytes(msg.header)
    THEN StreamMIDI_sendImpl(msg.header, msg.data1, msg.data2, msg.cable)
    ELSE StreamMIDI_sendImpl1(msg.header, msg.data1, msg.cable)

USBMIDI_send(msg) ==
    IF hasTwoDataBytes(msg.header)
    THEN USBMIDI_sendImpl(getMessageType(msg.header), getChannel(msg.header),
                          msg.data1, msg.data2, msg.cable)
    ELSE USBMIDI_sendImpl1(getMessageType(msg.header),
                           getChannel(msg.header), msg.data1, msg.cable)

\* The threads that send on one interface.
Senders == {1, 2}

\* The state after construction, with the USB interface of usbParser built
\* with the parser up.
InitOf(up) ==
    /\ stream = <<>>
    /\ parser = ParserInit
    /\ result = NO_MESSAGE
    /\ fed = <<>>
    /\ log = <<>>
    /\ returned = <<>>
    /\ usbRx = <<>>
    /\ usbParser = up
    /\ usbResult = NO_MESSAGE
    /\ usbFed = <<>>
    /\ usbLog = <<>>
    /\ usbReturned = <<>>
    /\ tx = <<>>
    /\ usbTx = <<>>
    /\ sent = <<>>
    /\ pending = [s \in Senders |-> <<>>]
    /\ mutex = 0
    /\ checked = <<>>
    /\ elements = <<>>
    /\ display = [e \in {} |-> 0]
    /\ destroyed = {}
    /\ usb_configuration = TRUE
    /\ teensyRx = <<>>
    /\ rx_packet = <<>>
    /\ teensyParser = UsbParserInit
    /\ teensyResult = NO_MESSAGE
    /\ teensyTrace = <<>>
    /\ SREG = 128
    /\ ppTx = <<>>
    /\ ppCall = <<>>
    /\ ppParser = UsbParserInit
    /\ ppResult = NO_MESSAGE
    /\ ppLog = <<>>
    /\ pulsesPerStep = 0
    /\ speedMultiply = 0
    /\ encoder = 0
    /\ previousPosition = 0
    /\ address = 0
    /\ sends = <<>>
    /\ updates = <<>>
    /\ setting = 0
    /\ button = <<>>
    /\ setCalls = <<>>

Init == InitOf(UsbParserInit)

\* The state after construction in the build with the larger SysEx buffer.
InitLargeBuffer == InitOf(LargeUsbParserInit)

\* Byte b arrives on the stream once the control loop has read what came
\* before; at most limit bytes arrive in all.
Receive(b, limit) ==
    /\ Len(fed) + Len(stream) < limit
    /\ Len(stream) = 0
    /\ stream' = Append(stream, b)
    /\ UNCHANGED <<parser, result, fed, log, returned, usbVars, sendVars,
                   otherVars>>

Arrive == \E b \in Bytes : Receive(b, MaxBytes)

ArriveTyped == \E b \in TypeBytes : Receive(b, MaxTypeBytes)

\* The control loop calls read().
Read ==
    LET r == read(parser, stream)
    IN /\ parser' = r.parser
       /\ stream' = r.stream
       /\ result' = r.result
       /\ fed' = fed \o SubSeq(stream, 1, Len(stream) - Len(r.stream))
       /\ log' = log \o r.seen
       /\ returned' = IF r.result = NO_MESSAGE THEN returned
                      ELSE Append(returned, Returned(r.parser, r.result))
       /\ UNCHANGED <<otherVars, usbVars, sendVars>>

Next == Arrive \/ Read

Spec == Init /\ [][Next]_vars

NextTypes == ArriveTyped \/ Read

(***************************************************************************)
(* A third input alphabet: two data bytes, Note On, SysEx Start and End,   *)
(* the undefined status byte 0xF1, Tune Request and Timing Clock.          *)
(***************************************************************************)
UndefinedStatus == SYSEX_START + 1
SysBytes == {64, 127, NOTE_ON, SYSEX_START, UndefinedStatus, TUNE_REQUEST,
             SYSEX_END, TIMING_CLOCK}

ArriveSys == \E b \in SysBytes : Receive(b, MaxSysBytes)

NextSys == ArriveSys \/ Read

SpecSys == Init /\ [][NextSys]_vars

(***************************************************************************)
(* Round trips: a channel message is sent on an interface whose output is  *)
(* wired back to its input, then read.                                     *)
(***************************************************************************)
ChannelTypes ==
    {NOTE_OFF, NOTE_ON, KEY_PRESSURE, CONTROL_CHANGE, PROGRAM_CHANGE,
     CHANNEL_PRESSURE, PITCH_BEND}

RoundTripMessages ==
    {ChannelMessage(t + c, d1, d2, cn) :
        t \in ChannelTypes, c \in {0, 15}, d1 \in {1, 127},
        d2 \in {0, 64}, cn \in {0, 15}}

\* The call of flush() that ends every sendImpl of the USB interface, as a
\* unit written to the endpoint after the packets: a unit with no bytes.
flush == <<>>

\* A sendImpl of the USB interface that wrote the packets w: its
\* writeUSBPacket calls followed by flush().
flushed(w) == w \o <<flush>>

\* The units w written by send call number n of sender s.
Written(w, s, n) ==
    [i \in 1..Len(w) |-> [sender |-> s, call |-> n, unit |-> w[i]]]

SendStreamLoopback ==
    \E msg \in RoundTripMessages :
        /\ Len(sent) < MaxSends
        /\ stream = <<>> /\ usbRx = <<>>
        /\ sent' = Append(sent, [transport |-> "stream", message |-> msg])
        /\ tx' = tx \o Written(StreamMIDI_send(msg), 0, Len(sent) + 1)
        /\ stream' = stream \o StreamMIDI_send(msg)
        /\ UNCHANGED <<parser, result, fed, log, returned, usbVars, usbTx,
                       pending, mutex,
                       otherVars>>

SendUSBLoopback ==
    \E msg \in RoundTripMessages :
        /\ Len(sent) < MaxSends
        /\ stream = <<>> /\ usbRx = <<>>
        /\ sent' = Append(sent, [transport |-> "usb", message |-> msg])
        /\ usbTx' = usbTx \o Written(flushed(USBMIDI_send(msg)), 0,
                                      Len(sent) + 1)
        /\ usbRx' = usbRx \o USBMIDI_send(msg)
        /\ UNCHANGED <<streamVars, usbParser, usbResult, usbFed, usbLog,
                       usbReturned, tx, pending, mutex,
                       otherVars>>

\* USBMIDI_Interface::read()
UsbRead ==
    LET r == usbRead(usbParser, usbRx)
    IN /\ usbParser' = r.parser
       /\ usbRx' = r.rx
       /\ usbResult' = r.result
       /\ usbFed' = usbFed \o r.packets
       /\ usbLog' = usbLog \o r.seen
       /\ usbReturned' = IF r.result = NO_MESSAGE THEN usbReturned
                         ELSE Append(usbReturned,
                                     UsbObserved(r.parser, r.result))
       /\ UNCHANGED <<otherVars, streamVars, sendVars>>

NextRoundTrip == SendStreamLoopback \/ SendUSBLoopback \/ Read \/ UsbRead

SpecRoundTrip == Init /\ [][NextRoundTrip]_vars

(***************************************************************************)
(* Runs in which input arrives at any time, so that any number of bytes or *)
(* packets may wait when read() is called.  One run uses one interface:    *)
(* the stream interface or the USB interface.                              *)
(***************************************************************************)
BatchBytes ==
    {64, NOTE_ON, PROGRAM_CHANGE, SYSEX_START, SYSEX_END, TIMING_CLOCK}

\* A Note On on cable 0, a Program Change on cable 1, a Timing Clock on
\* cable 0 and a packet with the reserved code index number 1.
Packets ==
    {writeUSBPacket(0, NOTE_ON \div 16, NOTE_ON, 64, 127),
     writeUSBPacket(1, PROGRAM_CHANGE \div 16, PROGRAM_CHANGE + 4, 64, 0),
     writeUSBPacket(0, 15, TIMING_CLOCK, 0, 0),
     writeUSBPacket(1, 1, 0, 0, 0)}

ArriveBatch ==
    \E b \in BatchBytes :
        /\ Len(usbFed) + Len(usbRx) = 0
        /\ Len(fed) + Len(stream) < MaxBatchBytes
        /\ stream' = Append(stream, b)
        /\ UNCHANGED <<parser, result, fed, log, returned, usbVars, sendVars,
                       otherVars>>

ArrivePacket ==
    \E packet \in Packets :
        /\ Len(fed) + Len(stream) = 0
        /\ Len(usbFed) + Len(usbRx) < MaxPackets
        /\ usbRx' = Append(usbRx, packet)
        /\ UNCHANGED <<streamVars, usbParser, usbResult, usbFed, usbLog,
                       usbReturned, sendVars,
                       otherVars>>

NextBatch == ArriveBatch \/ ArrivePacket \/ Read \/ UsbRead

SpecBatch == Init /\ [][NextBatch]_vars

(***************************************************************************)
(* The send overloads, each called on its own.  sent records the overload  *)
(* and its arguments, tx and usbTx what the call wrote.  The SysEx buffers *)
(* handed to the calls hold MaxSendLength bytes, of which the call is told *)
(* to send the first length.                                               *)
(***************************************************************************)
SendChannels == {0, 15}
SendCables == {0, 15}
RealTimeBytes == {b \in 0..255 : isRealTime(b)}
SendBuffers ==
    {[i \in 1..MaxSendLength |-> IF i = 1 THEN SYSEX_START ELSE i],
     [i \in 1..MaxSendLength |-> IF i = 1 THEN SYSEX_START ELSE 128 - i]}

\* Call number Len(sent) + 1 is recorded as call, and wrote w to the
\* transport t.
Called(t, call, w) ==
    /\ Len(sent) < MaxImplCalls
    /\ sent' = Append(sent, call)
    /\ IF t = "usb"
       THEN /\ usbTx' = usbTx \o Written(w, 0, Len(sent) + 1)
            /\ UNCHANGED tx
       ELSE /\ tx' = tx \o Written(w, 0, Len(sent) + 1)
            /\ UNCHANGED usbTx
    /\ UNCHANGED <<otherVars, streamVars, usbVars, pending, mutex>>

CallUsbSendImpl ==
    \E m \in ChannelTypes, c \in SendChannels, d1 \in {1, 127}, d2 \in {2},
       cn \in SendCables :
        Called("usb", [transport |-> "usb", overload |-> "two", m |-> m,
                       c |-> c, d1 |-> d1, d2 |-> d2, cn |-> cn],
               flushed(USBMIDI_sendImpl(m, c, d1, d2, cn)))

CallUsbSendImpl1 ==
    \E m \in ChannelTypes, c \in SendChannels, d1 \in {1, 127},
       cn \in SendCables :
        Called("usb", [transport |-> "usb", overload |-> "one", m |-> m,
                       c |-> c, d1 |-> d1, cn |-> cn],
               flushed(USBMIDI_sendImpl1(m, c, d1, cn)))

CallUsbSendImplSysEx ==
    \E data \in SendBuffers, length \in 0..MaxSendLength, cn \in SendCables :
        Called("usb", [transport |-> "usb", overload |-> "sysex",
                       data |-> data, length |-> length, cn |-> cn],
               flushed(USBMIDI_sendImplSysEx(data, length, cn)))

CallUsbSendImplRT ==
    \E rt \in RealTimeBytes, cn \in SendCables :
        Called("usb", [transport |-> "usb", overload |-> "rt", rt |-> rt,
                       cn |-> cn],
               flushed(USBMIDI_sendImplRT(rt, cn)))

CallStreamSendImpl ==
    \E m \in ChannelTypes, c \in SendChannels, d1 \in {1, 127}, d2 \in {2},
       cn \in SendCables :
        Called("stream", [transport |-> "stream", overload |-> "two",
                          header |-> m + c, d1 |-> d1, d2 |-> d2, cn |-> cn],
               StreamMIDI_sendImpl(m + c, d1, d2, cn))

CallStreamSendImpl1 ==
    \E m \in ChannelTypes, c \in SendChannels, d1 \in {1, 127},
       cn \in SendCables :
        Called("stream", [transport |-> "stream", overload |-> "one",
                          header |-> m + c, d1 |-> d1, cn |-> cn],
               StreamMIDI_sendImpl1(m + c, d1, cn))

CallStreamSendImplSysEx ==
    \E data \in SendBuffers, length \in 0..MaxSendLength, cn \in SendCables :
        Called("stream", [transport |-> "stream", overload |-> "sysex",
                          data |-> data, length |-> length, cn |-> cn],
               StreamMIDI_sendImplSysEx(data, length, cn))

CallStreamSendImplRT ==
    \E rt \in RealTimeBytes, cn \in SendCables :
        Called("stream", [transport |-> "stream", overload |-> "rt",
                          rt |-> rt, cn |-> cn],
               StreamMIDI_sendImplRT(rt, cn))

NextSendImpl ==
    \/ CallUsbSendImpl
    \/ CallUsbSendImpl1
    \/ CallUsbSendImplSysEx
    \/ CallUsbSendImplRT
    \/ CallStreamSendImpl
    \/ CallStreamSendImpl1
    \/ CallStreamSendImplSysEx
    \/ CallStreamSendImplRT

SpecSendImpl == Init /\ [][NextSendImpl]_vars

(***************************************************************************)
(* The predicates and the comparison of ChannelMessage, each called on its *)
(* own: the predicates on a message with any of the 256 headers, the       *)
(* comparison on two messages that differ in any set of their fields.      *)
(***************************************************************************)
Headers == 0..255

ComparedMessages ==
    {ChannelMessage(header, data1, data2, cable) :
        header \in {NOTE_ON, NOTE_ON + 1}, data1 \in {64, 65},
        data2 \in {0, 127}, cable \in {0, 15}}

CallHasTwoDataBytes ==
    \E header \in Headers :
        /\ checked' = <<[call |-> "hasTwoDataBytes", header |-> header,
                         value |-> hasTwoDataBytes(header)]>>
        /\ UNCHANGED <<ifaceVars, moreVars, displayVars, teensyVars>>

CallHasValidHeader ==
    \E header \in Headers :
        /\ checked' = <<[call |-> "hasValidHeader", header |-> header,
                         value |-> hasValidHeader(header)]>>
        /\ UNCHANGED <<ifaceVars, moreVars, displayVars, teensyVars>>

CallCompare ==
    \E this \in ComparedMessages, other \in ComparedMessages :
        /\ checked' = <<[call |-> "compare", this |-> this, other |-> other,
                         equal |-> operator_eq(this, other),
                         unequal |-> operator_ne(this, other)]>>
        /\ UNCHANGED <<ifaceVars, moreVars, displayVars, teensyVars>>

NextMessageTypes == CallHasTwoDataBytes \/ CallHasValidHeader \/ CallCompare

SpecMessageTypes == Init /\ [][NextMessageTypes]_vars

(***************************************************************************)
(* The setters of ChannelMessage, called in any order on a message, and    *)
(* the constructor, setCable() and the comparison of SysExMessage, on      *)
(* arguments from a bounded set.  checked holds the last call.             *)
(***************************************************************************)
\* The seven channel voice types, and all values of the enumeration
\* MIDIMessageType (CC is CONTROL_CHANGE), which setMessageType() accepts.
ChannelVoiceTypes ==
    {NOTE_OFF, NOTE_ON, KEY_PRESSURE, CONTROL_CHANGE, PROGRAM_CHANGE,
     CHANNEL_PRESSURE, PITCH_BEND}
MIDIMessageTypes ==
    ChannelVoiceTypes
        \cup {SYSEX_START, TUNE_REQUEST, SYSEX_END, TIMING_CLOCK,
              UNDEFINED_REALTIME_1, START, CONTINUE, STOP,
              UNDEFINED_REALTIME_2, ACTIVE_SENSING, RESET}

\* Channel::getRaw(): the zero-based channel.
Channels == 0..15

\* A setChannel() that does not clear the old channel.
setChannel_noClear(msg, channel) ==
    [msg EXCEPT !.header = BitOr(msg.header, channel)]

\* ChannelMessage::setChannel(): header &= 0xF0; header |= channel.getRaw()
setChannel(msg, channel) ==
    [msg EXCEPT !.header = BitOr((msg.header \div 16) * 16, channel)]

\* ChannelMessage::setMessageType(): header &= 0x0F; header |= type & 0xF0
setMessageType(msg, type) ==
    [msg EXCEPT !.header = BitOr(msg.header % 16, (type \div 16) * 16)]

\* ChannelMessage::setCable(): cable = cable.getRaw()
setCable(msg, cable) == [msg EXCEPT !.cable = cable]

\* ChannelMessage::setData1()
setData1(msg, data) == [msg EXCEPT !.data1 = data]

\* ChannelMessage::getData2(uint8_t): the setter of data2
getData2(msg, data) == [msg EXCEPT !.data2 = data]

\* A ChannelMessage is constructed.
ConstructChannelMessage ==
    /\ Len(checked) = 0
    /\ \E header \in Headers :
        /\ checked' = <<[call |-> "ChannelMessage",
                         after |-> ChannelMessage(header, 64, 127, 0)]>>
        /\ UNCHANGED <<ifaceVars, moreVars, displayVars, teensyVars>>

\* There is a ChannelMessage: the one the last call left.
HasChannelMessage ==
    /\ Len(checked) = 1
    /\ checked[1].call \in {"ChannelMessage", "setChannel", "setMessageType",
                            "setCable", "setData1", "getData2"}

\* The setter call with the argument arg turned the message into after.
SetterCalled(call, arg, after) ==
    /\ checked' = <<[call |-> call, before |-> checked[1].after,
                     arg |-> arg, after |-> after]>>
    /\ UNCHANGED <<ifaceVars, moreVars, displayVars, teensyVars>>

CallSetChannel ==
    /\ HasChannelMessage
    /\ \E channel \in Channels :
        SetterCalled("setChannel", channel,
                     setChannel(checked[1].after, channel))

CallSetMessageType ==
    /\ HasChannelMessage
    /\ \E type \in MIDIMessageTypes :
        SetterCalled("setMessageType", type,
                     setMessageType(checked[1].after, type))

CallSetCable ==
    /\ HasChannelMessage
    /\ \E cable \in {0, 15} :
        SetterCalled("setCable", cable, setCable(checked[1].after, cable))

CallSetData1 ==
    /\ HasChannelMessage
    /\ \E data \in {5, 64} :
        SetterCalled("setData1", data, setData1(checked[1].after, data))

CallSetData2 ==
    /\ HasChannelMessage
    /\ \E data \in {9, 127} :
        SetterCalled("getData2", data, getData2(checked[1].after, data))

\* The buffers a SysExMessage is made to point into: two buffers of 258
\* bytes that differ in their second byte and from byte 257 on.
SysExBuffers ==
    {[k \in 1..258 |-> IF k = 2 \/ k > 256 THEN fill ELSE k % 128] :
        fill \in {1, 2}}

\* The lengths given to the constructor (a size_t).
SysExLengths == {0, 1, 2, 255, 256, 257, 258}

\* memcmp(a, b, n) == 0
memcmp_equal(a, b, n) == \A k \in 1..n : a[k] = b[k]

\* SysExMessage::operator==
SysExMessage_operator_eq(this, other) ==
    /\ this.length = other.length
    /\ this.cable = other.cable
    /\ memcmp_equal(this.data, other.data, this.length)

CallConstructSysEx ==
    /\ Len(checked) = 0
    /\ \E data \in SysExBuffers, length \in SysExLengths, cable \in {0, 15} :
        /\ checked' = <<[call |-> "SysExMessage", data |-> data,
                         length |-> length, cable |-> cable,
                         message |-> SysExMessage(data, length, cable)]>>
        /\ UNCHANGED <<ifaceVars, moreVars, displayVars, teensyVars>>

CallCompareSysEx ==
    /\ Len(checked) = 0
    /\ \E data1 \in SysExBuffers, data2 \in SysExBuffers,
          length1 \in SysExLengths, length2 \in SysExLengths,
          cable \in {0, 15} :
        LET this == SysExMessage(data1, length1, 0)
            other == SysExMessage(data2, length2, cable)
        IN /\ checked' = <<[call |-> "compareSysEx",
                            this |-> [data |-> data1, length |-> length1,
                                      cable |-> 0],
                            other |-> [data |-> data2, length |-> length2,
                                       cable |-> cable],
                            equal |-> SysExMessage_operator_eq(this, other)]>>
           /\ UNCHANGED <<ifaceVars, moreVars, displayVars, teensyVars>>

\* SysExMessage::setCable() is called on the message constructed.
CallSysExSetCable ==
    /\ Len(checked) = 1
    /\ checked[1].call \in {"SysExMessage", "SysExMessage::setCable"}
    /\ \E cable \in {0, 15} :
        /\ checked' = <<[call |-> "SysExMessage::setCable",
                         before |-> checked[1].message, arg |-> cable,
                         message |-> [checked[1].message
                                         EXCEPT !.cable = cable]]>>
        /\ UNCHANGED <<ifaceVars, moreVars, displayVars, teensyVars>>

\* A run constructs a ChannelMessage and calls its setters in any order,
\* or constructs a SysExMessage and sets its cable, or compares two
\* SysExMessages.
NextMessageCalls ==
    \/ ConstructChannelMessage
    \/ CallSetChannel
    \/ CallSetMessageType
    \/ CallSetCable
    \/ CallSetData1
    \/ CallSetData2
    \/ CallConstructSysEx
    \/ CallSysExSetCable
    \/ CallCompareSysEx

SpecMessageCalls == Init /\ [][NextMessageCalls]_vars

(***************************************************************************)
(* USBMIDI_Interface::read() on Teensy 3.x.  A usb_packet_t is a record    *)
(*   id     which packet it is (the packets are numbered as they arrive)   *)
(*   len    the number of bytes received into buf                          *)
(*   index  the offset of the next four bytes to parse                     *)
(*   buf    the bytes received, as the groups of four that lie within len  *)
(* The bytes of buf past len were not received: reading them gives what an *)
(* earlier transfer left there, any of StaleGroups.                        *)
(***************************************************************************)
NoteOnPacket == writeUSBPacket(0, 9, NOTE_ON, 64, 127)
NoteOffPacket == writeUSBPacket(0, 8, NOTE_OFF, 64, 0)

TeensyPackets ==
    {[len |-> 2, buf |-> <<>>],
     [len |-> 4, buf |-> <<NoteOnPacket>>],
     [len |-> 4, buf |-> <<NoPacket>>],
     [len |-> 6, buf |-> <<NoteOnPacket>>],
     [len |-> 8, buf |-> <<NoteOnPacket, NoteOffPacket>>]}

StaleGroups == {NoPacket, NoteOnPacket}

\* The number of packets usb_rx returned so far.
Fetched(trace) ==
    LET IsRx(x) == x.op = "rx" IN Len(SelectSeq(trace, IsRx))

\* usb_rx(MIDI_RX_ENDPOINT), called at the place site of read(): the next
\* packet of the USB stack, nullptr if it holds none.
usb_rx(st, site) ==
    IF Len(st.rx) = 0 THEN [st EXCEPT !.rx_packet = <<>>]
    ELSE [st EXCEPT !.rx_packet = <<Head(st.rx)>>,
                    !.rx = Tail(st.rx),
                    !.trace = Append(@, [op |-> "rx", id |-> Head(st.rx).id,
                                         site |-> site,
                                         len |-> Head(st.rx).len,
                                         buf |-> Head(st.rx).buf])]

\* usb_free(rx_packet)
usb_free(st) ==
    [st EXCEPT !.trace = Append(@, [op |-> "free", id |-> st.rx_packet[1].id])]

\* rx_packet->buf + index: the four bytes at index, which lie within the
\* bytes received or reach past them.
dataAt(packet, stale) ==
    IF packet.index + 4 <= packet.len
    THEN packet.buf[packet.index \div 4 + 1]
    ELSE stale

\* A loop body that reads the next packet without freeing the one it has
\* used up.
teensyParseStep_noFree(st, stale) ==
    LET packet == st.rx_packet[1]
        r == usbParse(st.parser, dataAt(packet, stale))
        parsed == [st EXCEPT !.parser = r.parser,
                             !.trace = Append(@, [op |-> "parse",
                                                  id |-> packet.id,
                                                  index |-> packet.index,
                                                  len |-> packet.len,
                                                  data |-> dataAt(packet,
                                                                  stale)])]
        index == packet.index + 4
    IN [state |-> IF index < packet.len
                  THEN [parsed EXCEPT !.rx_packet[1].index = index]
                  ELSE usb_rx(parsed, "next"),
        event |-> r.event]

\* The body of the loop from parser.parse(data) on, for the packet that
\* rx_packet points to.
teensyParseStep(st, stale) ==
    LET packet == st.rx_packet[1]
        r == usbParse(st.parser, dataAt(packet, stale))
        parsed == [st EXCEPT !.parser = r.parser,
                             !.trace = Append(@, [op |-> "parse",
                                                  id |-> packet.id,
                                                  index |-> packet.index,
                                                  len |-> packet.len,
                                                  data |-> dataAt(packet,
                                                                  stale)])]
        index == packet.index + 4
    IN [state |-> IF index < packet.len
                  THEN [parsed EXCEPT !.rx_packet[1].index = index]
                  ELSE usb_rx(usb_free(parsed), "next"),
        event |-> r.event]

\* The loop of read(), from round i on.
RECURSIVE teensyReadLoop(_, _, _)
teensyReadLoop(i, st, stale) ==
    IF i >= (SYSEX_BUFFER_SIZE + 2) \div 3
    THEN [st EXCEPT !.result = NO_MESSAGE]
    ELSE IF Len(st.rx_packet) = 0
    THEN IF ~st.usb_configuration
         THEN [st EXCEPT !.result = NO_MESSAGE]
         ELSE LET fetched == usb_rx(st, "start")
              IN IF Len(fetched.rx_packet) = 0
                 THEN [fetched EXCEPT !.result = NO_MESSAGE]
                 ELSE IF fetched.rx_packet[1].len < 4
                 THEN [usb_free(fetched) EXCEPT !.rx_packet = <<>>,
                                                !.result = NO_MESSAGE]
                 ELSE LET step == teensyParseStep(fetched, stale[i + 1])
                      IN IF step.event # NO_MESSAGE
                         THEN [step.state EXCEPT !.result = step.event]
                         ELSE teensyReadLoop(i + 1, step.state, stale)
    ELSE LET step == teensyParseStep(st, stale[i + 1])
         IN IF step.event # NO_MESSAGE
            THEN [step.state EXCEPT !.result = step.event]
            ELSE teensyReadLoop(i + 1, step.state, stale)

\* The host sends a packet.
TeensyArrive ==
    \E packet \in TeensyPackets :
        /\ Fetched(teensyTrace) + Len(teensyRx) < MaxTeensyPackets
        /\ teensyRx' = Append(teensyRx,
                [id |-> Fetched(teensyTrace) + Len(teensyRx) + 1,
                 len |-> packet.len, index |-> 0, buf |-> packet.buf])
        /\ UNCHANGED <<ifaceVars, moreVars, typeVars, displayVars,
                       usb_configuration, rx_packet, teensyParser,
                       teensyResult, teensyTrace>>

\* The host configures the device, or the device loses its configuration.
TeensyConfigure ==
    /\ usb_configuration' = ~usb_configuration
    /\ UNCHANGED <<ifaceVars, moreVars, typeVars, displayVars, teensyRx,
                   rx_packet, teensyParser, teensyResult, teensyTrace>>

\* USBMIDI_Interface::read() (Teensy 3.x)
TeensyRead ==
    \E stale \in [1..((SYSEX_BUFFER_SIZE + 2) \div 3) -> StaleGroups] :
        LET r == teensyReadLoop(0,
                     [usb_configuration |-> usb_configuration,
                      rx |-> teensyRx, rx_packet |-> rx_packet,
                      parser |-> teensyParser, result |-> teensyResult,
                      trace |-> teensyTrace], stale)
        IN /\ teensyRx' = r.rx
           /\ rx_packet' = r.rx_packet
           /\ teensyParser' = r.parser
           /\ teensyResult' = r.result
           /\ teensyTrace' = r.trace
           /\ UNCHANGED <<ifaceVars, moreVars, typeVars, displayVars,
                          usb_configuration>>

NextTeensy == TeensyArrive \/ TeensyConfigure \/ TeensyRead

SpecTeensy == Init /\ [][NextTeensy]_vars

(***************************************************************************)
(* USBMIDI_Interface on Teensy++ 2.0 (AT90USB1286).  The functions talk to *)
(* the USB controller with interrupts disabled.  What the controller shows *)
(* is an input of each call:                                               *)
(*   usb_configuration  whether the device is configured                   *)
(*   UDFNUML            the frame number, read when the wait starts and in *)
(*                      every round of the wait                            *)
(*   UEINTX             of which the functions test RWAL (the bank can be  *)
(*                      read or written) and RXOUTI (a bank was received)  *)
(*   UEDATX             the four bytes read from the bank                  *)
(* writeUSBPacket() waits for the bank with interrupts enabled between     *)
(* the rounds of its wait loop, and read() parses the bytes of a round     *)
(* after it has restored SREG: each call is a sequence of steps, and a     *)
(* handler can run between SREG = intr_state and the next cli().  A        *)
(* handler is entered with the global interrupt flag cleared and returns   *)
(* with it set, and leaves the rest of SREG as it was.                     *)
(***************************************************************************)
\* cli(): SREG with the global interrupt flag cleared.
cli(sreg) == sreg % 128

\* reti: SREG with the global interrupt flag set.
reti(sreg) == (sreg % 128) + 128

\* What read() reads in one round at retry.  With RWAL set it does not test
\* RXOUTI, so one value stands for both.
RxPolls ==
    [RWAL : {TRUE}, RXOUTI : {FALSE}] \cup [RWAL : {FALSE}, RXOUTI : BOOLEAN]
PPPackets == {NoteOnPacket, writeUSBPacket(1, 1, 0, 0, 0)}

\* The sequences of 1..n elements of S.
SeqUpTo(S, n) == UNION {[1..k -> S] : k \in 1..n}

\* writeUSBPacket() up to the wait loop, called with SREG = sreg and with
\* usb_configuration = configured; frame is UDFNUML.
ppWriteEnter(sreg, configured, frame) ==
    IF ~configured
    THEN [SREG |-> sreg, exit |-> "notConfigured", call |-> <<>>]
    ELSE [SREG |-> cli(sreg), exit |-> "",
          call |-> <<[at |-> "poll", intr_state |-> sreg,
                      timeout |-> (frame + 2) % 256, rounds |-> 0,
                      before |-> sreg]>>]

\* A test of RWAL that leaves interrupts disabled when the bank is not
\* ready.
ppWritePoll_keepsCli(sreg, c, RWAL) ==
    IF RWAL
    THEN [SREG |-> c.intr_state, exit |-> "written", call |-> <<>>]
    ELSE [SREG |-> sreg, exit |-> "",
          call |-> <<[c EXCEPT !.at = "wait"]>>]

\* writeUSBPacket() at the head of the wait loop, in the call c: with the
\* bank ready the loop is left, the four bytes are written and SREG is
\* restored; otherwise SREG is restored and the wait goes on.
ppWritePoll(sreg, c, RWAL) ==
    IF RWAL
    THEN [SREG |-> c.intr_state, exit |-> "written", call |-> <<>>]
    ELSE [SREG |-> c.intr_state, exit |-> "",
          call |-> <<[c EXCEPT !.at = "wait"]>>]

\* writeUSBPacket() in the wait loop after SREG = intr_state: it returns
\* at the timeout or without configuration, or saves SREG, disables
\* interrupts and goes round again.
ppWriteWait(sreg, c, frame, configured) ==
    IF frame = c.timeout
    THEN [SREG |-> sreg, exit |-> "timeout", call |-> <<>>]
    ELSE IF ~configured
    THEN [SREG |-> sreg, exit |-> "unconfigured", call |-> <<>>]
    ELSE [SREG |-> cli(sreg), exit |-> "",
          call |-> <<[c EXCEPT !.at = "poll", !.intr_state = sreg,
                               !.rounds = c.rounds + 1]>>]

\* read(), from the label retry on, in a round that saved intr_state.
RECURSIVE ppReadRetry(_, _)
ppReadRetry(intr_state, polls) ==
    IF Len(polls) = 0
    THEN [SREG |-> cli(intr_state), exit |-> "waiting"]
    ELSE IF ~Head(polls).RWAL
    THEN IF Head(polls).RXOUTI
         THEN ppReadRetry(intr_state, Tail(polls))
         ELSE [SREG |-> intr_state, exit |-> "noData"]
    ELSE [SREG |-> intr_state, exit |-> "data"]

\* One round of the loop of USBMIDI_Interface::read() (Teensy++ 2.0) up to
\* the statement that restores SREG, entered with SREG = sreg: round gives
\* what the controller shows, usb_configuration and the UEINTX values read
\* at retry.  The round leaves with the four bytes of UEDATX ("data") or
\* returns NO_MESSAGE.
ppReadFetch(sreg, round) ==
    IF ~round.usb_configuration
    THEN [SREG |-> sreg, exit |-> "notConfigured"]
    ELSE ppReadRetry(sreg, round.polls)

\* The rest of round i, run with SREG restored: the parser p is given the
\* four bytes; the call returns the event, goes to the next round, or
\* returns NO_MESSAGE after the last round.
ppReadParse(p, data, i) ==
    LET r == usbParse(p, data)
    IN IF r.event # NO_MESSAGE
       THEN [exit |-> "message", parser |-> r.parser, result |-> r.event]
       ELSE IF i + 1 < (SYSEX_BUFFER_SIZE + 2) \div 3
       THEN [exit |-> "", parser |-> r.parser, result |-> NO_MESSAGE]
       ELSE [exit |-> "noMessage", parser |-> r.parser,
             result |-> NO_MESSAGE]

\* read() from round i on when nothing interrupts it (it is called with
\* interrupts disabled), with SREG = sreg and the parser p; rounds gives for
\* each round what the controller shows and the four bytes in UEDATX.
RECURSIVE ppReadLoop(_, _, _, _)
ppReadLoop(i, sreg, p, rounds) ==
    IF ~(i < (SYSEX_BUFFER_SIZE + 2) \div 3)
    THEN [SREG |-> sreg, exit |-> "noMessage", parser |-> p,
          result |-> NO_MESSAGE]
    ELSE LET rd == ppReadFetch(sreg, rounds[i + 1])
         IN IF rd.exit # "data"
            THEN [SREG |-> rd.SREG, exit |-> rd.exit, parser |-> p,
                  result |-> NO_MESSAGE]
            ELSE LET r == ppReadParse(p, rounds[i + 1].data, i)
                 IN IF r.exit = ""
                    THEN ppReadLoop(i + 1, rd.SREG, r.parser, rounds)
                    ELSE [SREG |-> rd.SREG, exit |-> r.exit,
                          parser |-> r.parser, result |-> r.result]

\* The application enables or disables interrupts between the calls.
PPToggleInterrupts ==
    /\ ppCall = <<>>
    /\ SREG' = 128 - SREG
    /\ UNCHANGED <<ifaceVars, typeVars, displayVars, teensyVars, ppTx,
                   ppParser, ppResult, ppLog, ppCall, encoderVars,
                   selectorVars>>

\* The step st of the writeUSBPacket() call that was entered with SREG =
\* before: SREG and the call are as the step leaves them, the packet is
\* written and the call is logged when it returns.
PPWriteStep(st, before) ==
    /\ SREG' = st.SREG
    /\ ppCall' = st.call
    /\ ppTx' = IF st.exit = "written" THEN Append(ppTx, NoteOnPacket)
               ELSE ppTx
    /\ ppLog' = IF st.exit = "" THEN ppLog
                ELSE Append(ppLog, [call |-> "writeUSBPacket",
                                    exit |-> st.exit, before |-> before,
                                    after |-> st.SREG])
    /\ UNCHANGED <<ifaceVars, typeVars, displayVars, teensyVars, ppParser,
                   ppResult, encoderVars, selectorVars>>

\* writeUSBPacket() is called.
PPWriteUSBPacket ==
    /\ ppCall = <<>>
    /\ Len(ppLog) < MaxPPCalls
    /\ \E configured \in BOOLEAN, frame \in {0, 254} :
        PPWriteStep(ppWriteEnter(SREG, configured, frame), SREG)

\* The call tests RWAL.
PPWritePoll ==
    /\ ppCall # <<>>
    /\ ppCall[1].at = "poll"
    /\ \E RWAL \in BOOLEAN :
        PPWriteStep(ppWritePoll(SREG, ppCall[1], RWAL), ppCall[1].before)

\* The call reads UDFNUML and usb_configuration with SREG restored.
PPWriteWait ==
    /\ ppCall # <<>>
    /\ ppCall[1].at = "wait"
    /\ \E frame \in {0, 2}, configured \in BOOLEAN :
        LET st == ppWriteWait(SREG, ppCall[1], frame, configured)
        IN /\ st.exit = "" => ppCall[1].rounds + 1 < MaxPolls
           /\ PPWriteStep(st, ppCall[1].before)

\* read() returns: the call is logged with SREG as it was at the call and
\* as it is now.
PPReadReturns(exit, before, after) ==
    ppLog' = Append(ppLog, [call |-> "read", exit |-> exit,
                            before |-> before, after |-> after])

\* read() is called, or a call in progress starts its next round: the round
\* runs with interrupts disabled until SREG is restored, and then either
\* has returned NO_MESSAGE or holds the four bytes it has not parsed yet.
PPRead ==
    /\ \/ ppCall = <<>> /\ Len(ppLog) < MaxPPCalls
       \/ ppCall # <<>> /\ ppCall[1].at = "fetch"
    /\ \E round \in [usb_configuration : BOOLEAN,
                     polls : SeqUpTo(RxPolls, MaxPolls)],
          data \in PPPackets :
        LET i == IF ppCall = <<>> THEN 0 ELSE ppCall[1].i
            before == IF ppCall = <<>> THEN SREG ELSE ppCall[1].before
            rd == ppReadFetch(SREG, round)
        IN /\ rd.exit # "waiting"
           /\ SREG' = rd.SREG
           /\ IF rd.exit = "data"
              THEN /\ ppCall' = <<[at |-> "parse", i |-> i, data |-> data,
                                   before |-> before]>>
                   /\ UNCHANGED <<ppResult, ppLog>>
              ELSE /\ ppCall' = <<>>
                   /\ ppResult' = NO_MESSAGE
                   /\ PPReadReturns(rd.exit, before, rd.SREG)
           /\ UNCHANGED <<ifaceVars, typeVars, displayVars, teensyVars,
                          ppTx, ppParser, encoderVars, selectorVars>>

\* The call in progress gives the four bytes it holds to the parser, with
\* SREG as the round restored it.
PPReadParse ==
    /\ ppCall # <<>>
    /\ ppCall[1].at = "parse"
    /\ LET c == ppCall[1]
           r == ppReadParse(ppParser, c.data, c.i)
       IN /\ ppParser' = r.parser
          /\ IF r.exit = ""
             THEN /\ ppCall' = <<[at |-> "fetch", i |-> c.i + 1,
                                  data |-> c.data, before |-> c.before]>>
                  /\ UNCHANGED <<ppResult, ppLog>>
             ELSE /\ ppCall' = <<>>
                  /\ ppResult' = r.result
                  /\ PPReadReturns(r.exit, c.before, SREG)
          /\ UNCHANGED <<ifaceVars, typeVars, displayVars, teensyVars,
                         SREG, ppTx, encoderVars, selectorVars>>

\* While a call in progress has interrupts enabled (writeUSBPacket() waits,
\* or read() has restored SREG and has not parsed its bytes or started its
\* next round), a handler runs and calls read().
PPInterruptRead ==
    /\ ppCall # <<>>
    /\ ppCall[1].at \in {"wait", "parse", "fetch"}
    /\ SREG >= 128
    /\ Len(ppLog) + 1 < MaxPPCalls
    /\ \E rounds \in [1..((SYSEX_BUFFER_SIZE + 2) \div 3) ->
                         [usb_configuration : BOOLEAN,
                          polls : SeqUpTo(RxPolls, MaxPolls),
                          data : PPPackets]] :
        LET r == ppReadLoop(0, cli(SREG), ppParser, rounds)
        IN /\ r.exit # "waiting"
           /\ SREG' = reti(r.SREG)
           /\ ppParser' = r.parser
           /\ ppResult' = r.result
           /\ PPReadReturns(r.exit, cli(SREG), r.SREG)
           /\ UNCHANGED <<ifaceVars, typeVars, displayVars, teensyVars,
                          ppTx, ppCall, encoderVars, selectorVars>>

NextPP ==
    \/ PPToggleInterrupts
    \/ PPWriteUSBPacket
    \/ PPWritePoll
    \/ PPWriteWait
    \/ PPRead
    \/ PPReadParse
    \/ PPInterruptRead

SpecPP == Init /\ [][NextPP]_vars

(***************************************************************************)
(* Bankable::MIDIRotaryEncoder.  encoder is the position the Encoder       *)
(* reports, address what address.getActiveAddress() returns (it changes    *)
(* when another bank is selected), sends the calls of sender.send() and    *)
(* updates the position read and the active address of every update().     *)
(* pulsesPerStep = 0 stands for the time before construction.              *)
(***************************************************************************)
\* (speedMultiply, pulsesPerStep) given to the constructor.
EncoderConfigs == {<<1, 1>>, <<3, 2>>, <<2, 3>>}
Turns == {-3, -2, -1, 1, 2, 3}
BankAddresses == {0, 1}

\* A division that rounds down.
operator_div_floor(a, b) == a \div b

\* a / b on long with b > 0: the quotient is rounded towards zero.
operator_div(a, b) == IF a >= 0 THEN a \div b ELSE -((-a) \div b)

\* An update() that sends the steps without multiplying.
update_sendsUnscaled(st, currentPosition, activeAddress) ==
    LET difference ==
            operator_div(currentPosition - st.previousPosition,
                         st.pulsesPerStep)
    IN IF difference # 0
       THEN [sent |-> <<[delta |-> difference, address |-> activeAddress]>>,
             previousPosition |->
                 st.previousPosition + difference * st.pulsesPerStep]
       ELSE [sent |-> <<>>, previousPosition |-> st.previousPosition]

\* MIDIRotaryEncoder::update(): what is sent and the new previousPosition.
update(st, currentPosition, activeAddress) ==
    LET difference ==
            operator_div(currentPosition - st.previousPosition,
                         st.pulsesPerStep)
    IN IF difference # 0
       THEN [sent |-> <<[delta |-> difference * st.speedMultiply,
                         address |-> activeAddress]>>,
             previousPosition |->
                 st.previousPosition + difference * st.pulsesPerStep]
       ELSE [sent |-> <<>>, previousPosition |-> st.previousPosition]

ConstructEncoder ==
    /\ pulsesPerStep = 0
    /\ \E c \in EncoderConfigs :
        /\ speedMultiply' = c[1]
        /\ pulsesPerStep' = c[2]
    /\ UNCHANGED <<ifaceVars, typeVars, displayVars, teensyVars, ppVars,
                   selectorVars, encoder, previousPosition, address, sends,
                   updates>>

\* The knob is turned.
Turn ==
    /\ pulsesPerStep # 0
    /\ \E d \in Turns :
        /\ encoder + d \in -MaxPosition..MaxPosition
        /\ encoder' = encoder + d
    /\ UNCHANGED <<ifaceVars, typeVars, displayVars, teensyVars, ppVars,
                   selectorVars, pulsesPerStep, speedMultiply,
                   previousPosition, address, sends, updates>>

\* Another bank is selected.
SelectBank ==
    /\ pulsesPerStep # 0
    /\ \E a \in BankAddresses \ {address} : address' = a
    /\ UNCHANGED <<ifaceVars, typeVars, displayVars, teensyVars, ppVars,
                   selectorVars, pulsesPerStep, speedMultiply, encoder,
                   previousPosition, sends, updates>>

EncoderUpdate ==
    /\ pulsesPerStep # 0
    /\ Len(updates) < MaxUpdates
    /\ LET r == update([previousPosition |-> previousPosition,
                        pulsesPerStep |-> pulsesPerStep,
                        speedMultiply |-> speedMultiply], encoder, address)
       IN /\ previousPosition' = r.previousPosition
          /\ sends' = sends \o [k \in 1..Len(r.sent) |->
                                   [delta |-> r.sent[k].delta,
                                    address |-> r.sent[k].address,
                                    update |-> Len(updates) + 1]]
    /\ updates' = Append(updates, [position |-> encoder,
                                   address |-> address])
    /\ UNCHANGED <<ifaceVars, typeVars, displayVars, teensyVars, ppVars,
                   selectorVars, pulsesPerStep, speedMultiply, encoder,
                   address>>

NextEncoder == ConstructEncoder \/ Turn \/ SelectBank \/ EncoderUpdate

SpecEncoder == Init /\ [][NextEncoder]_vars

(***************************************************************************)
(* GenericSwitchSelector.  button is the history of what button.update()   *)
(* returned, setting the selection, setCalls the calls of set().           *)
(* GenericSelector (Selector.hpp) and Button (Hardware/Button.hpp) are     *)
(* modelled by their contract: set(n) makes n the selection and            *)
(* Parent::update() leaves it alone; the button reports Falling when its   *)
(* input went from high to low since the last update, Rising when it went  *)
(* from low to high, Pressed while it stays low and Released while it      *)
(* stays high, and it starts high.                                         *)
(***************************************************************************)
\* What button.update() can return after the states in history.
ButtonUpdate(history) ==
    IF Len(history) = 0 \/ history[Len(history)] \in {"Released", "Rising"}
    THEN {"Released", "Falling"}
    ELSE {"Pressed", "Rising"}

\* GenericSelector::set().
set(selection, newSetting) == newSetting

\* An update() with the two settings exchanged.
GenericSwitchSelector_update_exchanged(selection, state) ==
    IF state = "Falling"
    THEN [setting |-> set(selection, 0), calls |-> <<0>>]
    ELSE IF state = "Rising"
    THEN [setting |-> set(selection, 1), calls |-> <<1>>]
    ELSE [setting |-> selection, calls |-> <<>>]

\* GenericSwitchSelector::update() when button.update() returns state:
\* the new selection and the arguments of the set() calls made.
GenericSwitchSelector_update(selection, state) ==
    IF state = "Falling"
    THEN [setting |-> set(selection, 1), calls |-> <<1>>]
    ELSE IF state = "Rising"
    THEN [setting |-> set(selection, 0), calls |-> <<0>>]
    ELSE [setting |-> selection, calls |-> <<>>]

SelectorUpdate ==
    /\ Len(button) < MaxSelectorUpdates
    /\ \E state \in ButtonUpdate(button) :
        LET r == GenericSwitchSelector_update(setting, state)
        IN /\ button' = Append(button, state)
           /\ setting' = r.setting
           /\ setCalls' = setCalls \o [k \in 1..Len(r.calls) |->
                                          [setting |-> r.calls[k],
                                           update |-> Len(button) + 1]]
    /\ UNCHANGED <<ifaceVars, typeVars, displayVars, teensyVars, ppVars,
                   encoderVars>>

NextSelector == SelectorUpdate

SpecSelector == Init /\ [][NextSelector]_vars

(***************************************************************************)
(* DisplayElement.  An element is known by its address, a display by its   *)
(* address.  The list is a DoublyLinkedList; insertSorted links the node   *)
(* before the first node that the comparison orders after it, and at the   *)
(* end if there is none; remove unlinks the node.                          *)
(***************************************************************************)
ElementAddresses == 1..MaxElements
DisplayAddresses == 1..MaxDisplays

\* A comparison by the addresses of the elements themselves.
cmp_elementAddress(lhs, rhs, disp) == lhs < rhs

\* The lambda of the constructor: &lhs.getDisplay() < &rhs.getDisplay()
cmp(lhs, rhs, disp) == disp[lhs] < disp[rhs]

RECURSIVE insertSorted(_, _, _)
insertSorted(list, node, disp) ==
    IF Len(list) = 0 THEN <<node>>
    ELSE IF cmp(node, Head(list), disp) THEN <<node>> \o list
    ELSE <<Head(list)>> \o insertSorted(Tail(list), node, disp)

remove(list, node) ==
    LET Other(x) == x # node IN SelectSeq(list, Other)

\* DisplayElement::DisplayElement(display), for the element at address e.
Construct(e, d) ==
    /\ e \notin DOMAIN display
    /\ display' = [x \in DOMAIN display \cup {e} |->
                       IF x = e THEN d ELSE display[x]]
    /\ elements' = insertSorted(elements, e, display')
    /\ destroyed' = destroyed \ {e}
    /\ UNCHANGED <<ifaceVars, moreVars, typeVars, teensyVars>>

\* DisplayElement::~DisplayElement(), for the element at address e.
Destroy(e) ==
    /\ e \in DOMAIN display
    /\ elements' = remove(elements, e)
    /\ display' = [x \in DOMAIN display \ {e} |-> display[x]]
    /\ destroyed' = destroyed \cup {e}
    /\ UNCHANGED <<ifaceVars, moreVars, typeVars, teensyVars>>

NextDisplay ==
    \/ \E e \in ElementAddresses, d \in DisplayAddresses : Construct(e, d)
    \/ \E e \in ElementAddresses : Destroy(e)

SpecDisplay == Init /\ [][NextDisplay]_vars

(***************************************************************************)
(* Runs of the USB read() with SysEx packets waiting, in the build with the*)
(* larger buffer: an empty SysEx and a SysEx of one data byte, each in one *)
(* packet, a packet that starts a SysEx, one that continues it, one that   *)
(* ends it and one that ends it with a data byte more, a Note On and a     *)
(* packet with the reserved code index number 1.                           *)
(***************************************************************************)
ReadPackets ==
    {writeUSBPacket(0, 6, SYSEX_START, SYSEX_END, 0),
     writeUSBPacket(1, 7, SYSEX_START, 64, SYSEX_END),
     writeUSBPacket(0, 4, SYSEX_START, 1, 2),
     writeUSBPacket(0, 4, 3, 4, 5),
     writeUSBPacket(0, 5, SYSEX_END, 0, 0),
     writeUSBPacket(0, 6, 6, SYSEX_END, 0),
     writeUSBPacket(0, 9, NOTE_ON, 64, 127),
     writeUSBPacket(1, 1, 0, 0, 0)}

ArriveReadPacket ==
    \E packet \in ReadPackets :
        /\ Len(usbFed) + Len(usbRx) < MaxReadPackets
        /\ usbRx' = Append(usbRx, packet)
        /\ UNCHANGED <<streamVars, usbParser, usbResult, usbFed, usbLog,
                       usbReturned, sendVars, otherVars>>

NextUsbRead == ArriveReadPacket \/ UsbRead

SpecUsbRead == InitLargeBuffer /\ [][NextUsbRead]_vars

(***************************************************************************)
(* Runs with SysEx packets of two cables, in the build with the larger     *)
(* buffer: for each of the cables 0 and 1 a packet that starts a SysEx with*)
(* two data bytes, a packet that continues it with three, a packet that    *)
(* ends it with two and a packet that ends it with none, and for cable 0   *)
(* the packet that ends it with one as well.                               *)
(***************************************************************************)
CablePackets ==
    {writeUSBPacket(0, 4, SYSEX_START, 64, 65),
     writeUSBPacket(0, 4, 66, 67, 68),
     writeUSBPacket(0, 5, SYSEX_END, 0, 0),
     writeUSBPacket(0, 6, 69, SYSEX_END, 0),
     writeUSBPacket(0, 7, 70, 71, SYSEX_END),
     writeUSBPacket(1, 4, SYSEX_START, 1, 2),
     writeUSBPacket(1, 4, 3, 4, 5),
     writeUSBPacket(1, 5, SYSEX_END, 0, 0),
     writeUSBPacket(1, 7, 6, 7, SYSEX_END)}

ArriveCablePacket ==
    \E packet \in CablePackets :
        /\ Len(usbFed) + Len(usbRx) < MaxCablePackets
        /\ usbRx' = Append(usbRx, packet)
        /\ UNCHANGED <<streamVars, usbParser, usbResult, usbFed, usbLog,
                       usbReturned, sendVars,
                       otherVars>>

NextCables == ArriveCablePacket \/ UsbRead

SpecCables == InitLargeBuffer /\ [][NextCables]_vars

(***************************************************************************)
(* Concurrent senders.  A send call of sender s puts what it has to write  *)
(* in pending[s] and writes it unit by unit; steps of the two senders      *)
(* interleave freely.  StreamMIDI_Interface::sendImpl takes the mutex for  *)
(* the whole call in the builds that compile it (ESP32, or not Arduino)    *)
(* and takes no lock in the other builds; a run is one build, fixed by its *)
(* first send.  USBMIDI_Interface::sendImpl takes no lock in any build.    *)
(***************************************************************************)
\* What the send calls of the runs write to the stream: a Note On, a
\* Program Change, a SysEx of four bytes and a Timing Clock.
StreamSends ==
    {StreamMIDI_sendImpl(NOTE_ON, 64, 127, 0),
     StreamMIDI_sendImpl1(PROGRAM_CHANGE, 64, 0),
     StreamMIDI_sendImplSysEx(<<SYSEX_START, 64, 65, SYSEX_END>>, 4, 0),
     StreamMIDI_sendImplRT(TIMING_CLOCK, 0)}

\* What they write to the USB endpoint: a Note On on cable 0, a SysEx of
\* five bytes on cable 0, one of four bytes on cable 1 and a Timing Clock,
\* each followed by the flush() of its sendImpl.
UsbSends ==
    {flushed(USBMIDI_sendImpl(NOTE_ON, 0, 64, 127, 0)),
     flushed(USBMIDI_sendImplSysEx(<<SYSEX_START, 64, 65, 127, SYSEX_END>>,
                                   5, 0)),
     flushed(USBMIDI_sendImplSysEx(<<SYSEX_START, 1, 2, SYSEX_END>>, 4, 1)),
     flushed(USBMIDI_sendImplRT(TIMING_CLOCK, 0))}

\* The build of the run compiles the mutex (b = TRUE) or not (b = FALSE).
BuildIs(b) == \A i \in 1..Len(sent) : sent[i].locked = b

\* Sender s enters sendImpl in a build with the mutex: lock_guard waits
\* until the mutex is free and takes it.
BeginStreamSendMutex(s) ==
    \E w \in StreamSends :
        /\ Len(sent) < MaxCalls
        /\ BuildIs(TRUE)
        /\ pending[s] = <<>>
        /\ mutex = 0
        /\ mutex' = s
        /\ pending' = [pending EXCEPT ![s] = Written(w, s, Len(sent) + 1)]
        /\ sent' = Append(sent, [transport |-> "stream", message |-> w,
                                 locked |-> TRUE])
        /\ UNCHANGED <<otherVars, streamVars, usbVars, tx, usbTx>>

\* Sender s enters sendImpl in a build without the mutex.
BeginStreamSend(s) ==
    \E w \in StreamSends :
        /\ Len(sent) < MaxCalls
        /\ BuildIs(FALSE)
        /\ pending[s] = <<>>
        /\ pending' = [pending EXCEPT ![s] = Written(w, s, Len(sent) + 1)]
        /\ sent' = Append(sent, [transport |-> "stream", message |-> w,
                                 locked |-> FALSE])
        /\ UNCHANGED <<otherVars, streamVars, usbVars, tx, usbTx, mutex>>

\* Sender s writes its next byte to the stream; after the last one
\* sendImpl returns and the lock_guard, if any, releases the mutex.
WriteStream(s) ==
    /\ pending[s] # <<>>
    /\ sent[Head(pending[s]).call].transport = "stream"
    /\ tx' = Append(tx, Head(pending[s]))
    /\ pending' = [pending EXCEPT ![s] = Tail(pending[s])]
    /\ mutex' = IF mutex = s /\ Len(pending[s]) = 1 THEN 0 ELSE mutex
    /\ UNCHANGED <<otherVars, streamVars, usbVars, usbTx, sent>>

NextStreamSend ==
    \/ \E s \in Senders : BeginStreamSendMutex(s)
    \/ \E s \in Senders : BeginStreamSend(s)
    \/ \E s \in Senders : WriteStream(s)

SpecStreamSend == Init /\ [][NextStreamSend]_vars

\* Sender s enters a sendImpl of the USB interface.
BeginUsbSend(s) ==
    \E w \in UsbSends :
        /\ Len(sent) < MaxCalls
        /\ pending[s] = <<>>
        /\ pending' = [pending EXCEPT ![s] = Written(w, s, Len(sent) + 1)]
        /\ sent' = Append(sent, [transport |-> "usb", message |-> w,
                                 locked |-> FALSE])
        /\ UNCHANGED <<otherVars, streamVars, usbVars, tx, usbTx, mutex>>

\* Sender s hands its next packet to writeUSBPacket or, after the last
\* packet, calls flush().
WriteUsb(s) ==
    /\ pending[s] # <<>>
    /\ sent[Head(pending[s]).call].transport = "usb"
    /\ usbTx' = Append(usbTx, Head(pending[s]))
    /\ pending' = [pending EXCEPT ![s] = Tail(pending[s])]
    /\ UNCHANGED <<otherVars, streamVars, usbVars, tx, sent, mutex>>

NextUsbSend ==
    \/ \E s \in Senders : BeginUsbSend(s)
    \/ \E s \in Senders : WriteUsb(s)

SpecUsbSend == Init /\ [][NextUsbSend]_vars

(***************************************************************************)
(* Runs with parser resets.  A reset is recorded in fed as ResetMark, a    *)
(* value that is no byte, and in the log with the parser it left behind.   *)
(***************************************************************************)
ResetMark == RESET + 1

ResetBytes == {64, NOTE_ON, PROGRAM_CHANGE + 4, SYSEX_START, SYSEX_END}

Reset ==
    /\ Len(fed) + Len(stream) < MaxResetBytes
    /\ parser' = reset(parser)
    /\ fed' = Append(fed, ResetMark)
    /\ log' = Append(log, Observed(reset(parser), NO_MESSAGE))
    /\ UNCHANGED <<otherVars, stream, result, returned, usbVars, sendVars>>

ArriveReset == \E b \in ResetBytes : Receive(b, MaxResetBytes)

NextReset == ArriveReset \/ Read \/ Reset

SpecReset == Init /\ [][NextReset]_vars

(***************************************************************************)
(* A fourth input alphabet, for the runs that leave the parser in the      *)
(* middle of something: a data byte, Note On and Program Change status     *)
(* bytes, SysEx Start and the undefined status byte 0xF1.                  *)
(***************************************************************************)
ResyncBytes == {64, NOTE_ON, PROGRAM_CHANGE + 4, SYSEX_START, UndefinedStatus}

ArriveResync == \E b \in ResyncBytes : Receive(b, MaxResyncBytes)

NextResync == ArriveResync \/ Read

SpecResync == Init /\ [][NextResync]_vars

SpecTypes == Init /\ [][NextTypes]_vars

(***************************************************************************)
(* Vocabulary of the properties.  Position k is the k-th byte handed to    *)
(* the parser.                                                             *)
(***************************************************************************)
Fed == 1..Len(fed)
Ev(k) == log[k].event
Msg(k) == log[k].bytes
After(k) == log[k].parser
Before(k) == IF k = 1 THEN ParserInit ELSE log[k - 1].parser

\* The channel-voice types with two data bytes and those with one.
TwoDataTypes ==
    {NOTE_OFF, NOTE_ON, KEY_PRESSURE, CONTROL_CHANGE, PITCH_BEND}
OneDataTypes == {PROGRAM_CHANGE, CHANNEL_PRESSURE}

\* Every byte handed to the parser has its entry in the log.
LogComplete == Len(log) = Len(fed)

\* Positions i..j all hold data bytes.
AllData(i, j) == \A x \in i..j : isData(fed[x])

\* The parser without the field that holds the delivered real-time byte.
Core(p) ==
    [state |-> p.state, runningStatus |-> p.runningStatus,
     data1 |-> p.data1, data2 |-> p.data2, sysexBuffer |-> p.sysexBuffer,
     sysexLength |-> p.sysexLength, sysexMsgLength |-> p.sysexMsgLength]

\* s without its real-time bytes.
RECURSIVE Strip(_)
Strip(s) ==
    IF Len(s) = 0 THEN <<>>
    ELSE IF isRealTime(Head(s)) THEN Strip(Tail(s))
    ELSE <<Head(s)>> \o Strip(Tail(s))

\* The observations of parsing s byte by byte, starting from parser p.
RECURSIVE Run(_, _)
Run(p, s) ==
    IF Len(s) = 0 THEN <<>>
    ELSE LET r == parse(p, Head(s))
         IN <<Observed(r.parser, r.event)>> \o Run(r.parser, Tail(s))

\* The entries of the log at the positions that hold no real-time byte.
RECURSIVE NonRealTimeLog(_, _)
NonRealTimeLog(bytes, entries) ==
    IF Len(bytes) = 0 THEN <<>>
    ELSE IF isRealTime(Head(bytes))
    THEN NonRealTimeLog(Tail(bytes), Tail(entries))
    ELSE <<Head(entries)>> \o NonRealTimeLog(Tail(bytes), Tail(entries))

\* An observation as the caller sees it: the event and the message.
Seen(o) == [event |-> o.event, bytes |-> o.bytes, core |-> Core(o.parser)]
SeenAll(os) == [i \in 1..Len(os) |-> Seen(os[i])]

(***************************************************************************)
(* C1: a real-time byte (0xF8..0xFF) fed in any parser state returns a     *)
(* real-time event for that byte and leaves the running status, the state, *)
(* the collected data bytes and the SysEx buffer contents and index as     *)
(* they were before the byte.                                              *)
(***************************************************************************)
C1_RealTimePreservesState ==
    /\ LogComplete
    /\ \A k \in Fed :
         isRealTime(fed[k]) =>
           /\ Ev(k) = REALTIME_MESSAGE
           /\ Msg(k) = <<fed[k]>>
           /\ After(k).state = Before(k).state
           /\ After(k).runningStatus = Before(k).runningStatus
           /\ After(k).data1 = Before(k).data1
           /\ After(k).data2 = Before(k).data2
           /\ After(k).sysexBuffer = Before(k).sysexBuffer
           /\ After(k).sysexLength = Before(k).sysexLength

\* A real-time byte was fed in the middle of a channel message and another
\* one in the middle of a SysEx with a byte already accumulated.
C1_Witness ==
    /\ Len(log) = 5
    /\ fed[2] = TIMING_CLOCK /\ Before(2).state = ChannelMessage1
    /\ fed[5] = TIMING_CLOCK /\ Before(5).state = SysExBody
    /\ Before(5).sysexLength = 1

(***************************************************************************)
(* C2: a real-time byte inserted after the status byte of a channel        *)
(* message is reported first, and the channel message then completes on    *)
(* its last data byte with the status and data bytes it would have without *)
(* the real-time byte; in general the events of the other bytes are those  *)
(* of the same input with the real-time bytes removed.                     *)
(***************************************************************************)
C2_RealTimeInterleaving ==
    /\ LogComplete
    /\ \A k \in Fed :
         isChannelStatus(fed[k]) =>
           \* status, real-time, data, data
           /\ ( /\ k + 3 \in Fed /\ getMessageType(fed[k]) \in TwoDataTypes
                /\ isRealTime(fed[k + 1]) /\ AllData(k + 2, k + 3) )
              => /\ Ev(k + 1) = REALTIME_MESSAGE /\ Msg(k + 1) = <<fed[k + 1]>>
                 /\ Ev(k + 2) = NO_MESSAGE
                 /\ Ev(k + 3) = CHANNEL_MESSAGE
                 /\ Msg(k + 3) = <<fed[k], fed[k + 2], fed[k + 3]>>
           \* status, data, real-time, data
           /\ ( /\ k + 3 \in Fed /\ getMessageType(fed[k]) \in TwoDataTypes
                /\ isData(fed[k + 1]) /\ isRealTime(fed[k + 2])
                /\ isData(fed[k + 3]) )
              => /\ Ev(k + 1) = NO_MESSAGE
                 /\ Ev(k + 2) = REALTIME_MESSAGE /\ Msg(k + 2) = <<fed[k + 2]>>
                 /\ Ev(k + 3) = CHANNEL_MESSAGE
                 /\ Msg(k + 3) = <<fed[k], fed[k + 1], fed[k + 3]>>
           \* status, real-time, data of a message with one data byte
           /\ ( /\ k + 2 \in Fed /\ getMessageType(fed[k]) \in OneDataTypes
                /\ isRealTime(fed[k + 1]) /\ isData(fed[k + 2]) )
              => /\ Ev(k + 1) = REALTIME_MESSAGE /\ Msg(k + 1) = <<fed[k + 1]>>
                 /\ Ev(k + 2) = CHANNEL_MESSAGE
                 /\ Msg(k + 2) = <<fed[k], fed[k + 2], 0>>
    /\ SeenAll(NonRealTimeLog(fed, log)) = SeenAll(Run(ParserInit, Strip(fed)))

\* [0x90, 0xF8, 0x40, 0x7F] was fed: Timing Clock, then Note On.
C2_Witness ==
    /\ fed = <<NOTE_ON, TIMING_CLOCK, 64, 127>>
    /\ Ev(2) = REALTIME_MESSAGE
    /\ Ev(4) = CHANNEL_MESSAGE /\ Msg(4) = <<NOTE_ON, 64, 127>>

(***************************************************************************)
(* C3: running status.  After a channel message with status S completed,   *)
(* the next group of data bytes (two, or one for a one-data-byte status)   *)
(* with no status byte in between completes another channel message with   *)
(* header S; [0x90, 0x40, 0x7F, 0x41, 0x7F] yields exactly the Note On     *)
(* messages (0x90,0x40,0x7F) and (0x90,0x41,0x7F).                         *)
(***************************************************************************)
C3_RunningStatus ==
    /\ LogComplete
    /\ \A k \in Fed :
         Ev(k) = CHANNEL_MESSAGE =>
           LET S == Msg(k)[1]
           IN /\ ( /\ getMessageType(S) \in TwoDataTypes
                   /\ k + 1 \in Fed /\ isData(fed[k + 1]) )
                 => Ev(k + 1) = NO_MESSAGE
              /\ ( /\ getMessageType(S) \in TwoDataTypes
                   /\ k + 2 \in Fed /\ AllData(k + 1, k + 2) )
                 => /\ Ev(k + 2) = CHANNEL_MESSAGE
                    /\ Msg(k + 2) = <<S, fed[k + 1], fed[k + 2]>>
              /\ ( /\ getMessageType(S) \in OneDataTypes
                   /\ k + 1 \in Fed /\ isData(fed[k + 1]) )
                 => /\ Ev(k + 1) = CHANNEL_MESSAGE
                    /\ Msg(k + 1) = <<S, fed[k + 1], 0>>
    /\ fed = <<NOTE_ON, 64, 127, 65, 127>> =>
         /\ [k \in Fed |-> Ev(k)] =
              <<NO_MESSAGE, NO_MESSAGE, CHANNEL_MESSAGE, NO_MESSAGE,
                CHANNEL_MESSAGE>>
         /\ Msg(3) = <<NOTE_ON, 64, 127>>
         /\ Msg(5) = <<NOTE_ON, 65, 127>>

\* [0x90, 0x40, 0x7F, 0x41, 0x7F] was fed and the second Note On came out.
C3_Witness ==
    /\ fed = <<NOTE_ON, 64, 127, 65, 127>>
    /\ Ev(5) = CHANNEL_MESSAGE /\ Msg(5) = <<NOTE_ON, 65, 127>>

(***************************************************************************)
(* C4: a channel message completes on exactly the byte that brings the     *)
(* data-byte count to the required number: the 1st data byte for Program   *)
(* Change and Channel Pressure, the 2nd for Note Off, Note On, Key         *)
(* Pressure, Control Change and Pitch Bend.  Every earlier byte of the     *)
(* message returns NO_MESSAGE and the parser is Idle after the completing  *)
(* byte.                                                                   *)
(***************************************************************************)
C4_CompletesOnRequiredCount ==
    /\ LogComplete
    /\ \A k \in Fed :
         isChannelStatus(fed[k]) =>
           /\ Ev(k) = NO_MESSAGE
           /\ ( /\ getMessageType(fed[k]) \in OneDataTypes
                /\ k + 1 \in Fed /\ isData(fed[k + 1]) )
              => /\ Ev(k + 1) = CHANNEL_MESSAGE
                 /\ Msg(k + 1) = <<fed[k], fed[k + 1], 0>>
                 /\ After(k + 1).state = Idle
           /\ ( /\ getMessageType(fed[k]) \in TwoDataTypes
                /\ k + 1 \in Fed /\ isData(fed[k + 1]) )
              => /\ Ev(k + 1) = NO_MESSAGE
                 /\ After(k + 1).state = ChannelMessage2
           /\ ( /\ getMessageType(fed[k]) \in TwoDataTypes
                /\ k + 2 \in Fed /\ AllData(k + 1, k + 2) )
              => /\ Ev(k + 2) = CHANNEL_MESSAGE
                 /\ Msg(k + 2) = <<fed[k], fed[k + 1], fed[k + 2]>>
                 /\ After(k + 2).state = Idle

\* A Channel Pressure message completed on its 1st data byte and a Pitch
\* Bend message is still incomplete after its 1st data byte.
C4_Witness ==
    /\ Len(log) = 4
    /\ fed[1] = CHANNEL_PRESSURE + 5 /\ Ev(2) = CHANNEL_MESSAGE
    /\ After(2).state = Idle
    /\ fed[3] = PITCH_BEND + 15 /\ isData(fed[4]) /\ Ev(4) = NO_MESSAGE

(***************************************************************************)
(* C5: SysEx chunking.  After SysEx Start, data bytes that arrive without  *)
(* a terminator yield a chunk event of exactly buffer-capacity length each *)
(* time the buffer fills and no event otherwise; SysEx End then yields a   *)
(* complete event whose length is the number of bytes accumulated since    *)
(* the last chunk boundary.                                                *)
(***************************************************************************)
C5_SysExChunking ==
    /\ LogComplete
    /\ \A k \in Fed :
         fed[k] = SYSEX_START =>
           \A j \in 0..(Len(fed) - k) :
             AllData(k + 1, k + j) =>
               /\ (j > 0 /\ j % SYSEX_BUFFER_SIZE = 0)
                  => /\ Ev(k + j) = SYSEX_CHUNK
                     /\ getSysExMessage(After(k + j)).length
                          = SYSEX_BUFFER_SIZE
                     /\ Len(Msg(k + j)) = SYSEX_BUFFER_SIZE
               /\ (j % SYSEX_BUFFER_SIZE # 0) => Ev(k + j) = NO_MESSAGE
               /\ (k + j + 1 \in Fed /\ fed[k + j + 1] = SYSEX_END)
                  => /\ Ev(k + j + 1) = SYSEX_MESSAGE
                     /\ getSysExMessage(After(k + j + 1)).length
                          = j % SYSEX_BUFFER_SIZE
                     /\ Len(Msg(k + j + 1)) = j % SYSEX_BUFFER_SIZE

\* SysEx Start, more data bytes than the buffer holds, SysEx End: a chunk,
\* then the complete event with the remainder.
C5_Witness ==
    /\ Len(log) = SYSEX_BUFFER_SIZE + 3
    /\ fed[1] = SYSEX_START /\ AllData(2, SYSEX_BUFFER_SIZE + 2)
    /\ fed[SYSEX_BUFFER_SIZE + 3] = SYSEX_END
    /\ Ev(SYSEX_BUFFER_SIZE + 1) = SYSEX_CHUNK
    /\ Ev(SYSEX_BUFFER_SIZE + 3) = SYSEX_MESSAGE
    /\ Len(Msg(SYSEX_BUFFER_SIZE + 3)) = 1

\* The SysEx views delivered at positions i..j, concatenated.
RECURSIVE SysExOut(_, _)
SysExOut(i, j) ==
    IF i > j THEN <<>>
    ELSE (IF Ev(i) \in {SYSEX_CHUNK, SYSEX_MESSAGE} THEN Msg(i) ELSE <<>>)
         \o SysExOut(i + 1, j)

\* Positions i..j hold only data bytes and real-time bytes.
SysExBodyAt(i, j) == \A x \in i..j : isData(fed[x]) \/ isRealTime(fed[x])

C7_SysExBounded ==
    /\ LogComplete
    /\ parser.sysexLength <= SYSEX_BUFFER_SIZE
    /\ \A k \in Fed :
         /\ After(k).sysexLength <= SYSEX_BUFFER_SIZE
         /\ Ev(k) \in {SYSEX_CHUNK, SYSEX_MESSAGE} =>
              /\ getSysExMessage(After(k)).length <= SYSEX_BUFFER_SIZE
              /\ Len(Msg(k)) <= SYSEX_BUFFER_SIZE

\* More data bytes than the buffer holds were accumulated: a full chunk was
\* delivered and accumulation went on.
C7_Witness ==
    /\ result = SYSEX_CHUNK
    /\ parser.state = SysExBody
    /\ getSysExMessage(parser).length = SYSEX_BUFFER_SIZE
    /\ \E k \in Fed : k < Len(fed) /\ Ev(k) = SYSEX_CHUNK

(***************************************************************************)
(* C8: SysEx End received while a SysEx is accumulated emits the complete  *)
(* event, returns the parser to Idle and leaves the running status         *)
(* cleared, so data bytes that directly follow produce no event.           *)
(***************************************************************************)
C8_SysExEnd ==
    /\ LogComplete
    /\ \A k \in Fed :
         (fed[k] = SYSEX_END /\ Before(k).state = SysExBody) =>
           /\ Ev(k) = SYSEX_MESSAGE
           /\ After(k).state = Idle
           /\ After(k).runningStatus = 0
           /\ \A j \in 1..(Len(fed) - k) :
                AllData(k + 1, k + j) =>
                  /\ Ev(k + j) = NO_MESSAGE
                  /\ After(k + j).state = Idle

\* A running status was set, a SysEx was started and terminated, and the
\* two data bytes after it produced nothing.
C8_Witness ==
    /\ fed = <<NOTE_ON, SYSEX_START, SYSEX_END, 64, 127>>
    /\ Ev(3) = SYSEX_MESSAGE
    /\ Ev(4) = NO_MESSAGE /\ Ev(5) = NO_MESSAGE

(***************************************************************************)
(* C9: SysEx Start received in any state resets the buffer index to 0 and  *)
(* clears the running status: until a new channel status byte is received, *)
(* no byte after the SysEx Start completes a channel message.              *)
(***************************************************************************)
C9_SysExStartClearsRunningStatus ==
    /\ LogComplete
    /\ \A k \in Fed :
         fed[k] = SYSEX_START =>
           /\ Ev(k) = NO_MESSAGE
           /\ After(k).state = SysExBody
           /\ After(k).sysexLength = 0
           /\ After(k).runningStatus = 0
           /\ \A j \in (k + 1)..Len(fed) :
                (\A x \in (k + 1)..j : ~isChannelStatus(fed[x])) =>
                  /\ Ev(j) # CHANNEL_MESSAGE
                  /\ After(j).runningStatus = 0

\* A Note On completed, so its running status was set; after a SysEx the
\* data bytes that would have been a running-status Note On produce nothing.
C9_Witness ==
    /\ Len(log) = 5
    /\ fed[1] = NOTE_ON /\ Before(2).runningStatus = NOTE_ON
    /\ fed[2] = SYSEX_START /\ Before(2).state = ChannelMessage1
    /\ fed[3] = SYSEX_END
    /\ AllData(4, 5)
    /\ \A k \in Fed : Ev(k) # CHANNEL_MESSAGE

(***************************************************************************)
(* C10: truncated SysEx.  A channel-voice status byte that arrives while a *)
(* SysEx is accumulated emits no SysEx event, neither then nor later for   *)
(* the abandoned bytes, clears the SysEx state, and the channel message it *)
(* starts is delivered with its own status and data bytes.                 *)
(***************************************************************************)
C10_TruncatedSysEx ==
    /\ LogComplete
    /\ \A k \in Fed :
         (isChannelStatus(fed[k]) /\ Before(k).state = SysExBody) =>
           /\ Ev(k) = NO_MESSAGE
           /\ After(k).state = ChannelMessage1
           /\ After(k).sysexLength = 0
           /\ After(k).runningStatus = fed[k]
           /\ \A j \in (k + 1)..Len(fed) :
                (\A x \in (k + 1)..j : fed[x] # SYSEX_START) =>
                  Ev(j) \notin {SYSEX_CHUNK, SYSEX_MESSAGE}
           /\ ( /\ getMessageType(fed[k]) \in TwoDataTypes
                /\ k + 2 \in Fed /\ AllData(k + 1, k + 2) )
              => /\ Ev(k + 1) = NO_MESSAGE
                 /\ Ev(k + 2) = CHANNEL_MESSAGE
                 /\ Msg(k + 2) = <<fed[k], fed[k + 1], fed[k + 2]>>
           /\ ( /\ getMessageType(fed[k]) \in OneDataTypes
                /\ k + 1 \in Fed /\ isData(fed[k + 1]) )
              => /\ Ev(k + 1) = CHANNEL_MESSAGE
                 /\ Msg(k + 1) = <<fed[k], fed[k + 1], 0>>

\* A SysEx with one accumulated byte was cut short by a Note On, which was
\* then delivered.
C10_Witness ==
    /\ fed = <<SYSEX_START, 65, NOTE_ON, 64, 127>>
    /\ Before(3).sysexLength = 1
    /\ \A k \in Fed : Ev(k) \notin {SYSEX_CHUNK, SYSEX_MESSAGE}
    /\ Ev(5) = CHANNEL_MESSAGE /\ Msg(5) = <<NOTE_ON, 64, 127>>

(***************************************************************************)
(* C11: Tune Request (0xF6) completes at once on the byte itself in every  *)
(* state; when it arrives while a SysEx is accumulated the SysEx is ended  *)
(* without an event for it, and later data bytes are not appended to the   *)
(* old SysEx buffer.                                                       *)
(***************************************************************************)
C11_TuneRequest ==
    /\ LogComplete
    /\ \A k \in Fed :
         fed[k] = TUNE_REQUEST =>
           /\ Ev(k) = REALTIME_MESSAGE
           /\ Msg(k) = <<TUNE_REQUEST>>
           /\ Before(k).state = SysExBody =>
                /\ After(k).state = Idle
                /\ \A j \in (k + 1)..Len(fed) :
                     (\A x \in (k + 1)..j : fed[x] # SYSEX_START) =>
                       /\ Ev(j) \notin {SYSEX_CHUNK, SYSEX_MESSAGE}
                       /\ After(j).state # SysExBody
                       /\ After(j).sysexBuffer = After(k).sysexBuffer
                       /\ After(j).sysexLength = 0

\* A SysEx with one accumulated byte was ended by Tune Request; the data
\* byte and the SysEx End after it produced nothing.
C11_Witness ==
    /\ fed = <<SYSEX_START, 64, TUNE_REQUEST, 127, SYSEX_END>>
    /\ Before(3).sysexLength = 1
    /\ Ev(3) = REALTIME_MESSAGE
    /\ Ev(4) = NO_MESSAGE /\ Ev(5) = NO_MESSAGE
    /\ After(5).sysexBuffer = After(2).sysexBuffer

(***************************************************************************)
(* C12: resynchronization.  A data byte fed while no running status is set *)
(* and no SysEx is in progress produces no event and leaves the parser in  *)
(* Idle, and a channel message fed afterwards, starting with its status    *)
(* byte, is delivered with its own status and data bytes.                  *)
(***************************************************************************)
C12_Resynchronization ==
    /\ LogComplete
    /\ \A k \in Fed :
         ( /\ isData(fed[k])
           /\ Before(k).runningStatus = 0
           /\ Before(k).state # SysExBody ) =>
           /\ Ev(k) = NO_MESSAGE
           /\ After(k).state = Idle
           /\ After(k).runningStatus = 0
           /\ ( /\ k + 3 \in Fed /\ isChannelStatus(fed[k + 1])
                /\ getMessageType(fed[k + 1]) \in TwoDataTypes
                /\ AllData(k + 2, k + 3) )
              => /\ Ev(k + 1) = NO_MESSAGE /\ Ev(k + 2) = NO_MESSAGE
                 /\ Ev(k + 3) = CHANNEL_MESSAGE
                 /\ Msg(k + 3) = <<fed[k + 1], fed[k + 2], fed[k + 3]>>
           /\ \A S \in {PROGRAM_CHANGE + 4, CHANNEL_PRESSURE + 5} :
                \A d \in {0, 127} :
                  LET os == Run(After(k), <<S, d>>)
                  IN /\ os[1].event = NO_MESSAGE
                     /\ os[2].event = CHANNEL_MESSAGE
                     /\ os[2].bytes = <<S, d, 0>>

\* Two stray data bytes at the very start, then a Note On that came out.
C12_Witness ==
    /\ fed = <<127, 64, NOTE_ON, 64, 127>>
    /\ Ev(1) = NO_MESSAGE /\ Ev(2) = NO_MESSAGE
    /\ Ev(5) = CHANNEL_MESSAGE /\ Msg(5) = <<NOTE_ON, 64, 127>>

\* A status byte of each channel-voice type, on different channels.
ChannelStatuses ==
    {NOTE_OFF + 1, NOTE_ON, KEY_PRESSURE + 2, CONTROL_CHANGE + 3,
     PROGRAM_CHANGE + 4, CHANNEL_PRESSURE + 5, PITCH_BEND + 15}

\* The message of status S with data bytes d1 (and d2), as a byte sequence.
Wire(S, d1, d2) ==
    IF getMessageType(S) \in TwoDataTypes THEN <<S, d1, d2>> ELSE <<S, d1>>

(***************************************************************************)
(* C13: self-resynchronization.  After any byte sequence (partial channel  *)
(* messages, unterminated SysEx, undefined status bytes included), a       *)
(* complete channel message that begins with its own status byte yields    *)
(* exactly one channel-message event, equal to that message, on its last   *)
(* data byte.                                                              *)
(***************************************************************************)
C13_SelfResynchronization ==
    /\ LogComplete
    \* the messages that do arrive after the bytes fed before them
    /\ \A k \in Fed :
         ( /\ isChannelStatus(fed[k]) /\ k + 2 \in Fed
           /\ getMessageType(fed[k]) \in TwoDataTypes
           /\ AllData(k + 1, k + 2) ) =>
           /\ Ev(k) = NO_MESSAGE /\ Ev(k + 1) = NO_MESSAGE
           /\ Ev(k + 2) = CHANNEL_MESSAGE
           /\ Msg(k + 2) = <<fed[k], fed[k + 1], fed[k + 2]>>
    /\ \A k \in Fed :
         ( /\ isChannelStatus(fed[k]) /\ k + 1 \in Fed
           /\ getMessageType(fed[k]) \in OneDataTypes
           /\ isData(fed[k + 1]) ) =>
           /\ Ev(k) = NO_MESSAGE
           /\ Ev(k + 1) = CHANNEL_MESSAGE
           /\ Msg(k + 1) = <<fed[k], fed[k + 1], 0>>
    \* every message of every type, fed to the parser as it is now
    /\ \A S \in ChannelStatuses :
         \A d1, d2 \in {0, 127} :
           LET w == Wire(S, d1, d2)
               os == Run(parser, w)
           IN /\ \A i \in 1..(Len(w) - 1) : os[i].event = NO_MESSAGE
              /\ os[Len(w)].event = CHANNEL_MESSAGE
              /\ os[Len(w)].bytes =
                   <<S, d1, IF Len(w) = 3 THEN d2 ELSE 0>>

\* An unterminated SysEx and an undefined status byte, then a Note On that
\* came out on its last data byte.
C13_Witness ==
    /\ fed = <<SYSEX_START, UndefinedStatus, NOTE_ON, 64, 64>>
    /\ Ev(5) = CHANNEL_MESSAGE /\ Msg(5) = <<NOTE_ON, 64, 64>>
    /\ \A k \in 1..4 : Ev(k) = NO_MESSAGE

\* No reset between positions i and j of the input.
NoReset(i, j) == \A x \in i..j : fed[x] # ResetMark

(***************************************************************************)
(* C14: resetting the parser in any state clears the running status and    *)
(* any SysEx in progress; data bytes fed directly after a reset produce no *)
(* event, a fresh message fed after it comes out as exactly that message   *)
(* (as from a new parser), and a second reset changes nothing.             *)
(***************************************************************************)
C14_Reset ==
    /\ LogComplete
    /\ reset(reset(parser)) = reset(parser)
    /\ \A k \in Fed :
         fed[k] = ResetMark =>
           /\ Ev(k) = NO_MESSAGE
           /\ After(k).state = Idle
           /\ After(k).runningStatus = 0
           /\ After(k).sysexLength = 0
           /\ (k > 1 /\ fed[k - 1] = ResetMark) => After(k) = After(k - 1)
           /\ \A j \in (k + 1)..Len(fed) :
                /\ AllData(k + 1, j) => Ev(j) = NO_MESSAGE
                /\ NoReset(k + 1, j) =>
                     LET os == Run(ParserInit, SubSeq(fed, k + 1, j))
                     IN /\ Ev(j) = os[j - k].event
                        /\ Msg(j) = os[j - k].bytes
           /\ ( /\ k + 3 \in Fed /\ isChannelStatus(fed[k + 1])
                /\ getMessageType(fed[k + 1]) \in TwoDataTypes
                /\ AllData(k + 2, k + 3) )
              => /\ Ev(k + 1) = NO_MESSAGE /\ Ev(k + 2) = NO_MESSAGE
                 /\ Ev(k + 3) = CHANNEL_MESSAGE
                 /\ Msg(k + 3) = <<fed[k + 1], fed[k + 2], fed[k + 3]>>
           /\ ( /\ k + 2 \in Fed /\ isChannelStatus(fed[k + 1])
                /\ getMessageType(fed[k + 1]) \in OneDataTypes
                /\ isData(fed[k + 2]) )
              => /\ Ev(k + 1) = NO_MESSAGE
                 /\ Ev(k + 2) = CHANNEL_MESSAGE
                 /\ Msg(k + 2) = <<fed[k + 1], fed[k + 2], 0>>

\* A reset in the middle of a SysEx with one accumulated byte, then a
\* Program Change that came out as sent.
C14_Witness ==
    /\ fed = <<SYSEX_START, 64, ResetMark, PROGRAM_CHANGE + 4, 64>>
    /\ Before(3).state = SysExBody /\ Before(3).sysexLength = 1
    /\ After(3).state = Idle
    /\ Ev(5) = CHANNEL_MESSAGE /\ Msg(5) = <<PROGRAM_CHANGE + 4, 64, 0>>

\* The messages sent on transport t, in order.
RECURSIVE SentOn(_, _)
SentOn(t, s) ==
    IF Len(s) = 0 THEN <<>>
    ELSE IF Head(s).transport = t
    THEN <<Head(s).message>> \o SentOn(t, Tail(s))
    ELSE SentOn(t, Tail(s))

\* The channel messages the accessor exposed after the CHANNEL_MESSAGE
\* events of the stream interface, in order.
RECURSIVE StreamGot(_)
StreamGot(l) ==
    IF Len(l) = 0 THEN <<>>
    ELSE IF Head(l).event = CHANNEL_MESSAGE
    THEN <<getChannelMessage(Head(l).parser)>> \o StreamGot(Tail(l))
    ELSE StreamGot(Tail(l))

\* The same for the USB interface.
RECURSIVE UsbGot(_)
UsbGot(l) ==
    IF Len(l) = 0 THEN <<>>
    ELSE IF Head(l).event = CHANNEL_MESSAGE
    THEN <<Head(l).message>> \o UsbGot(Tail(l))
    ELSE UsbGot(Tail(l))

\* Everything that was sent has been read back.
AllReadBack == stream = <<>> /\ usbRx = <<>>

(***************************************************************************)
(* C15 as stated: every channel message that was sent and read back on the *)
(* same transport comes out equal to the original in header, data1, data2  *)
(* and cable.                                                              *)
(***************************************************************************)
C15_RoundTripAllFields ==
    AllReadBack =>
      /\ StreamGot(log) = SentOn("stream", sent)
      /\ UsbGot(usbLog) = SentOn("usb", sent)

RoundTripOf(msg, t) ==
    ChannelMessage(msg.header, msg.data1,
                   IF getMessageType(msg.header) \in TwoDataTypes
                   THEN msg.data2 ELSE 0,
                   IF t = "usb" THEN msg.cable ELSE 0)

(***************************************************************************)
(* C15: round trip.  A channel message sent and read back on the same      *)
(* transport yields exactly one channel-message event whose message has    *)
(* the header and data1 of the original, its data2 for the types with two  *)
(* data bytes and data2 = 0 for Program Change and Channel Pressure; the   *)
(* cable is that of the original on USB and 0 on a stream transport.       *)
(***************************************************************************)
C15_RoundTrip ==
    AllReadBack =>
      /\ LET s == SentOn("stream", sent)
         IN StreamGot(log) = [i \in 1..Len(s) |-> RoundTripOf(s[i], "stream")]
      /\ LET u == SentOn("usb", sent)
         IN UsbGot(usbLog) = [i \in 1..Len(u) |-> RoundTripOf(u[i], "usb")]
      /\ \A i \in 1..Len(log) :
           log[i].event \in {NO_MESSAGE, CHANNEL_MESSAGE}
      /\ \A i \in 1..Len(usbLog) : usbLog[i].event = CHANNEL_MESSAGE

\* A Pitch Bend on channel 16 and cable 15 came back from the USB interface
\* with all four fields.
C15_Witness ==
    /\ AllReadBack
    /\ sent = <<[transport |-> "usb",
                 message |-> ChannelMessage(PITCH_BEND + 15, 127, 64, 15)]>>
    /\ UsbGot(usbLog) = <<ChannelMessage(PITCH_BEND + 15, 127, 64, 15)>>

\* The observations of parsing the packets s one by one, starting from p.
RECURSIVE UsbRun(_, _)
UsbRun(p, s) ==
    IF Len(s) = 0 THEN <<>>
    ELSE LET r == usbParse(p, Head(s))
         IN <<UsbObserved(r.parser, r.event)>> \o UsbRun(r.parser, Tail(s))

\* The observations of os that carry an event, in order.
RECURSIVE Completed(_)
Completed(os) ==
    IF Len(os) = 0 THEN <<>>
    ELSE IF Head(os).event = NO_MESSAGE THEN Completed(Tail(os))
    ELSE <<Head(os)>> \o Completed(Tail(os))

\* os without the parser snapshots.
EventsAndBytes(os) ==
    [i \in 1..Len(os) |-> [event |-> os[i].event, bytes |-> os[i].bytes]]

(***************************************************************************)
(* C16: ordering.  The events returned by successive read() calls on one   *)
(* transport are the events completed by the bytes or packets consumed so  *)
(* far, in the order of the bytes or packets that completed them, each     *)
(* with its own message: none is returned twice and none is skipped.       *)
(***************************************************************************)
C16_Ordering ==
    /\ returned = EventsAndBytes(Completed(Run(ParserInit, fed)))
    /\ usbReturned = Completed(UsbRun(UsbParserInit, usbFed))
    /\ Len(log) = Len(fed) /\ Len(usbLog) = Len(usbFed)

\* A Program Change and an empty SysEx were read from the stream: the
\* reads returned the channel message, then the SysEx.
C16_Witness ==
    /\ fed = <<PROGRAM_CHANGE, 64, SYSEX_START, SYSEX_END>>
    /\ stream = <<>>
    /\ returned = <<[event |-> CHANNEL_MESSAGE,
                     bytes |-> <<PROGRAM_CHANGE, 64, 0>>],
                    [event |-> SYSEX_MESSAGE, bytes |-> <<>>]>>

\* s is what is left of q after taking n units from its front.
RestAfter(s, q, n) == n \in 0..Len(q) /\ s = SubSeq(q, n + 1, Len(q))

ReadStep ==
    Read =>
      /\ RestAfter(stream', stream, Len(stream) - Len(stream'))
      /\ Len(fed') - Len(fed) = Len(stream) - Len(stream')
      /\ stream = <<>> =>
           result' = NO_MESSAGE /\ parser' = parser /\ fed' = fed
      /\ result' = NO_MESSAGE => stream' = <<>>

UsbReadStep ==
    UsbRead =>
      /\ RestAfter(usbRx', usbRx, Len(usbRx) - Len(usbRx'))
      /\ Len(usbRx) - Len(usbRx') <= (SYSEX_BUFFER_SIZE + 2) \div 3
      /\ Len(usbFed') - Len(usbFed) = Len(usbRx) - Len(usbRx')
      /\ usbRx = <<>> =>
           usbResult' = NO_MESSAGE /\ usbParser' = usbParser
           /\ usbFed' = usbFed

(***************************************************************************)
(* C17: read() does not block and terminates.  With no input ready it      *)
(* returns NO_MESSAGE and changes nothing; otherwise it consumes a prefix  *)
(* of the pending input and nothing else: the stream variant at most the   *)
(* bytes that were available, the USB variant at most                      *)
(* (SYSEX_BUFFER_SIZE + 2) / 3 packets.                                    *)
(***************************************************************************)
C17_ReadTerminates == [][ReadStep /\ UsbReadStep]_vars

\* A USB read() took a packet that completed nothing and returned
\* NO_MESSAGE at its packet bound, with two more packets waiting.
C17_Witness ==
    /\ usbFed = <<writeUSBPacket(1, 1, 0, 0, 0)>>
    /\ usbResult = NO_MESSAGE
    /\ Len(usbRx) = 2
    /\ usbReturned = <<>>

\* What successive read() calls return for the bytes s waiting on the
\* stream, starting with parser p, until no byte is left.
RECURSIVE Drain(_, _)
Drain(p, s) ==
    IF Len(s) = 0 THEN <<>>
    ELSE LET r == read(p, s)
         IN IF r.result = NO_MESSAGE THEN <<>>
            ELSE <<Returned(r.parser, r.result)>> \o Drain(r.parser, r.stream)

(***************************************************************************)
(* C18: fragmentation independence.  However the bytes are split into      *)
(* arrivals, with read() calls that find nothing in between, the events    *)
(* and messages returned by read() are those returned when all the bytes   *)
(* are available before the first read().                                  *)
(***************************************************************************)
C18_FragmentationIndependence ==
    returned \o Drain(parser, stream) = Drain(ParserInit, fed \o stream)

\* A read() consumed the first two bytes of a Note On and returned nothing;
\* the third byte arrived afterwards and waits for the next read().
C18_Witness ==
    /\ fed = <<NOTE_ON, 64>>
    /\ stream = <<64>>
    /\ result = NO_MESSAGE
    /\ returned = <<>>
    /\ Drain(parser, stream) =
         <<[event |-> CHANNEL_MESSAGE, bytes |-> <<NOTE_ON, 64, 64>>]>>

\* The units of each send call are next to each other in w.
Contiguous(w) ==
    \A i, k \in 1..Len(w) :
        (i < k /\ w[i].call = w[k].call) =>
            \A j \in i..k : w[j].call = w[i].call

\* In the builds that compile the mutex the bytes of concurrent sends on a
\* stream interface do not interleave.
MutexBuildContiguous == BuildIs(TRUE) => Contiguous(tx)

\* Both senders were inside sendImpl at once in a build with the mutex: one
\* holds it with bytes left to write, the other has written all of its.
MutexBuildContended ==
    /\ BuildIs(TRUE) /\ Len(sent) >= 2
    /\ mutex # 0 /\ Len(pending[mutex]) > 0 /\ Len(tx) >= 3

(***************************************************************************)
(* C19: atomic send on a stream transport.  When two senders send          *)
(* concurrently on one StreamMIDI_Interface, the bytes written by one send *)
(* call are contiguous in the stream: bytes of two sends never interleave. *)
(***************************************************************************)
C19_AtomicStreamSend == Contiguous(tx)

\* In a build without the mutex a Timing Clock of the second sender went
\* out between the status byte and the data bytes of the first sender's
\* Note On.
C19_Interleaved ==
    /\ BuildIs(FALSE)
    /\ [i \in 1..Len(tx) |-> tx[i].unit] = <<NOTE_ON, TIMING_CLOCK, 64, 127>>
    /\ [i \in 1..Len(tx) |-> tx[i].sender] = <<1, 2, 1, 1>>

\* The packets among the units written to the endpoint, in order.
PacketsWritten(w) ==
    LET IsPacket(x) == Len(x.unit) = 4 IN SelectSeq(w, IsPacket)

(***************************************************************************)
(* C20: atomic send on the USB transport.  When two senders send           *)
(* concurrently on one USBMIDI_Interface, on the same or on different      *)
(* cables, the packets of one send call are contiguous among the packets   *)
(* written: packets of two sends never interleave.                         *)
(***************************************************************************)
C20_AtomicUsbSend == Contiguous(PacketsWritten(usbTx))

\* The two packets of the first sender's SysEx on cable 0 went out with
\* the first packet of the second sender's SysEx on cable 1 between them.
C20_Interleaved ==
    /\ Len(usbTx) = 3
    /\ [i \in 1..3 |-> usbTx[i].sender] = <<1, 2, 1>>
    /\ [i \in 1..3 |-> usbTx[i].unit] =
         <<writeUSBPacket(0, 4, SYSEX_START, 64, 65),
           writeUSBPacket(1, 4, SYSEX_START, 1, 2),
           writeUSBPacket(0, 6, 127, SYSEX_END, 0)>>

\* The packets of s that belong to cable c, in order.
RECURSIVE OfCable(_, _)
OfCable(c, s) ==
    IF Len(s) = 0 THEN <<>>
    ELSE IF packetCable(Head(s)) = c THEN <<Head(s)>> \o OfCable(c, Tail(s))
    ELSE OfCable(c, Tail(s))

\* The observations of the log l at the packets of s that belong to cable c.
RECURSIVE LogOfCable(_, _, _)
LogOfCable(c, s, l) ==
    IF Len(s) = 0 THEN <<>>
    ELSE IF packetCable(Head(s)) = c
    THEN <<Head(l)>> \o LogOfCable(c, Tail(s), Tail(l))
    ELSE LogOfCable(c, Tail(s), Tail(l))

\* The data bytes in the payloads of the packets i..j of s that belong to
\* cable c, in order.
RECURSIVE CableData(_, _, _, _)
CableData(c, s, i, j) ==
    IF i > j THEN <<>>
    ELSE (IF packetCable(s[i]) = c
          THEN SelectSeq(payload(s[i]), isData) ELSE <<>>)
         \o CableData(c, s, i + 1, j)

\* The bytes delivered by the SysEx events of cable c at the packets i..j.
RECURSIVE CableOut(_, _, _)
CableOut(c, i, j) ==
    IF i > j THEN <<>>
    ELSE (IF /\ packetCable(usbFed[i]) = c
             /\ usbLog[i].event \in {SYSEX_MESSAGE, SYSEX_CHUNK}
          THEN viewBytes(usbLog[i].message) ELSE <<>>)
         \o CableOut(c, i + 1, j)

\* Packet j is the packet that started the SysEx of its cable that is
\* open or ends at packet k.
StartsSysExOf(j, k) ==
    /\ j <= k
    /\ packetCable(usbFed[j]) = packetCable(usbFed[k])
    /\ usbFed[j][2] = SYSEX_START
    /\ \A x \in (j + 1)..k :
         packetCable(usbFed[x]) = packetCable(usbFed[k]) =>
             usbFed[x][2] # SYSEX_START

\* All payload bytes of the packets i..j of s that belong to cable c, SysEx
\* Start and SysEx End included, in order.
RECURSIVE CablePayload(_, _, _, _)
CablePayload(c, s, i, j) ==
    IF i > j THEN <<>>
    ELSE (IF packetCable(s[i]) = c THEN payload(s[i]) ELSE <<>>)
         \o CablePayload(c, s, i + 1, j)

\* Every SysEx event carries the id of the cable of the packet that
\* completed it.
EventsCarryCable ==
    /\ Len(usbLog) = Len(usbFed)
    /\ \A k \in 1..Len(usbFed) :
         usbLog[k].event \in {SYSEX_MESSAGE, SYSEX_CHUNK} =>
             usbLog[k].message.cable = packetCable(usbFed[k])

UnitsOfCall(w, n) ==
    LET Of(x) == x.call = n
        sel == SelectSeq(w, Of)
    IN [i \in 1..Len(sel) |-> sel[i].unit]

\* The packets that call number n wrote to w, in order.
PacketsOfCall(w, n) ==
    LET IsPacket(u) == Len(u) = 4 IN SelectSeq(UnitsOfCall(w, n), IsPacket)

\* Call number n is a call of the given overload on transport t.
IsCall(n, t, o) == sent[n].transport = t /\ sent[n].overload = o

(***************************************************************************)
(* C22: the USB SysEx send of n >= 1 bytes writes packets that all carry    *)
(* the given cable; every packet but the last has CIN 0x4 and the next     *)
(* three bytes of the data; the last has CIN 0x5, 0x6 or 0x7 when 1, 2 or  *)
(* 3 bytes are left, holds those bytes, and its unused payload bytes are 0.*)
(***************************************************************************)
C22_SysExCIN ==
    \A n \in 1..Len(sent) :
        (IsCall(n, "usb", "sysex") /\ sent[n].length >= 1) =>
            LET P == PacketsOfCall(usbTx, n)
                last == P[Len(P)]
                r == sent[n].length - 3 * (Len(P) - 1)
            IN /\ Len(P) >= 1
               /\ \A i \in 1..Len(P) : packetCable(P[i]) = sent[n].cn
               /\ \A i \in 1..(Len(P) - 1) :
                    /\ packetCIN(P[i]) = 4
                    /\ SubSeq(P[i], 2, 4)
                         = SubSeq(sent[n].data, 3 * i - 2, 3 * i)
               /\ r \in 1..3
               /\ packetCIN(last) = 4 + r
               /\ SubSeq(last, 2, 1 + r)
                    = SubSeq(sent[n].data, 3 * Len(P) - 2, sent[n].length)
               /\ \A j \in (r + 2)..4 : last[j] = 0

\* Five bytes were sent on cable 15: a packet with CIN 0x4 and a packet
\* with CIN 0x6 whose last payload byte is 0.
C22_Witness ==
    \E n \in 1..Len(sent) :
        /\ IsCall(n, "usb", "sysex")
        /\ sent[n].length = 5 /\ sent[n].cn = 15
        /\ PacketsOfCall(usbTx, n)
             = <<(<<244, SYSEX_START, 2, 3>>), (<<246, 4, 5, 0>>)>>

(***************************************************************************)
(* C23: the USB channel-message send writes exactly one packet: byte 0 is  *)
(* (cable << 4) | CIN with CIN the high nibble of the status byte, which   *)
(* is 0x8..0xE; byte 1 is the status byte (type | channel); then data1 and *)
(* data2, and 0 in place of data2 for a message with one data byte.        *)
(***************************************************************************)
C23_ChannelPacket ==
    \A n \in 1..Len(sent) :
        (IsCall(n, "usb", "two") \/ IsCall(n, "usb", "one")) =>
            LET P == PacketsOfCall(usbTx, n)
                status == sent[n].m + sent[n].c
            IN /\ Len(P) = 1
               /\ status \div 16 \in 8..14
               /\ P[1][1] = sent[n].cn * 16 + status \div 16
               /\ P[1][2] = status
               /\ P[1][3] = sent[n].d1
               /\ P[1][4] = IF IsCall(n, "usb", "two") THEN sent[n].d2 ELSE 0

\* A Pitch Bend on channel 16 and cable 15 was sent with the data bytes 127
\* and 2.
C23_Witness ==
    \E n \in 1..Len(sent) :
        /\ IsCall(n, "usb", "two")
        /\ sent[n].m = PITCH_BEND /\ sent[n].c = 15 /\ sent[n].cn = 15
        /\ PacketsOfCall(usbTx, n) = <<(<<254, 239, 127, 2>>)>>

(***************************************************************************)
(* C24: the USB real-time send writes exactly one packet, with CIN 0xF on  *)
(* the given cable, the real-time byte as first payload byte and 0 in the  *)
(* other two.                                                              *)
(***************************************************************************)
C24_RealTimePacket ==
    \A n \in 1..Len(sent) :
        IsCall(n, "usb", "rt") =>
            PacketsOfCall(usbTx, n)
                = <<(<<sent[n].cn * 16 + 15, sent[n].rt, 0, 0>>)>>

\* A Timing Clock was sent on cable 15.
C24_Witness ==
    \E n \in 1..Len(sent) :
        /\ IsCall(n, "usb", "rt")
        /\ sent[n].rt = TIMING_CLOCK /\ sent[n].cn = 15
        /\ PacketsOfCall(usbTx, n) = <<(<<255, 248, 0, 0>>)>>

(***************************************************************************)
(* C25: stream send framing.  A channel message with two data bytes writes *)
(* exactly header, d1, d2; one with one data byte exactly header, d1; a    *)
(* real-time message exactly its byte; a SysEx send exactly the first      *)
(* length bytes of the data, in order.  The cable number is not written.   *)
(***************************************************************************)
C25_StreamFraming ==
    \A n \in 1..Len(sent) :
        sent[n].transport = "stream" =>
            UnitsOfCall(tx, n) =
                CASE sent[n].overload = "two" ->
                         <<sent[n].header, sent[n].d1, sent[n].d2>>
                  [] sent[n].overload = "one" ->
                         <<sent[n].header, sent[n].d1>>
                  [] sent[n].overload = "rt" -> <<sent[n].rt>>
                  [] sent[n].overload = "sysex" ->
                         [i \in 1..sent[n].length |-> sent[n].data[i]]

\* A SysEx send was given five of the bytes of its buffer and cable 15, and
\* wrote those five bytes.
C25_Witness ==
    \E n \in 1..Len(sent) :
        /\ IsCall(n, "stream", "sysex")
        /\ sent[n].length = 5 /\ sent[n].cn = 15
        /\ UnitsOfCall(tx, n) = <<SYSEX_START, 2, 3, 4, 5>>

\* The last call was a call of c.
Checked(c) == Len(checked) = 1 /\ checked[1].call = c

(***************************************************************************)
(* C26: for every valid header, that is every channel message type on      *)
(* every channel, hasTwoDataBytes() is true exactly for Note Off, Note On, *)
(* Key Pressure, Control Change and Pitch Bend, and false for Program      *)
(* Change and Channel Pressure.                                            *)
(***************************************************************************)
C26_HasTwoDataBytes ==
    (Checked("hasTwoDataBytes") /\ checked[1].header \in 128..239) =>
        /\ checked[1].header \div 16 \in {8, 9, 10, 11, 14}
             => checked[1].value = TRUE
        /\ checked[1].header \div 16 \in {12, 13}
             => checked[1].value = FALSE

\* hasTwoDataBytes() returned false for a Channel Pressure on channel 16.
C26_Witness ==
    /\ Checked("hasTwoDataBytes")
    /\ checked[1].header = CHANNEL_PRESSURE + 15
    /\ checked[1].value = FALSE

(***************************************************************************)
(* C27: for each of the 256 header values, hasValidHeader() is true if and *)
(* only if the high nibble is 0x8..0xE; it is false for the data bytes     *)
(* 0x00..0x7F and for the system bytes 0xF0..0xFF.                         *)
(***************************************************************************)
C27_HasValidHeader ==
    Checked("hasValidHeader") =>
        /\ checked[1].value = (checked[1].header \div 16 \in 8..14)
        /\ checked[1].header \in 0..127 => checked[1].value = FALSE
        /\ checked[1].header \in 240..255 => checked[1].value = FALSE

\* hasValidHeader() returned false for the header 0xF0.
C27_Witness ==
    /\ Checked("hasValidHeader")
    /\ checked[1].header = SYSEX_START
    /\ checked[1].value = FALSE

(***************************************************************************)
(* C28: two ChannelMessages compare equal if and only if their header,     *)
(* data1, data2 and cable are all equal, and operator!= returns the        *)
(* negation of operator==.                                                 *)
(***************************************************************************)
C28_Equality ==
    Checked("compare") =>
        /\ checked[1].equal = (checked[1].this = checked[1].other)
        /\ checked[1].unequal = ~checked[1].equal

\* Two messages that differ in the cable only compared unequal.
C28_Witness ==
    /\ Checked("compare")
    /\ checked[1].this = ChannelMessage(NOTE_ON, 64, 127, 0)
    /\ checked[1].other = ChannelMessage(NOTE_ON, 64, 127, 15)
    /\ checked[1].equal = FALSE
    /\ checked[1].unequal = TRUE

\* The positions of the list that hold element e.
PositionsOf(e) == {i \in 1..Len(elements) : elements[i] = e}

(***************************************************************************)
(* C29: after any constructions and destructions of display elements, the  *)
(* list holds every live element exactly once and no destroyed element,    *)
(* and is sorted by the addresses of the elements' displays, so that the   *)
(* elements of one display are adjacent.                                   *)
(***************************************************************************)
C29_ElementsSorted ==
    /\ \A e \in DOMAIN display : Cardinality(PositionsOf(e)) = 1
    /\ \A e \in destroyed : PositionsOf(e) = {}
    /\ \A i \in 1..Len(elements) : elements[i] \in DOMAIN display
    /\ \A i, j \in 1..Len(elements) :
         i < j => display[elements[i]] <= display[elements[j]]
    /\ \A i, j, k \in 1..Len(elements) :
         (i < k /\ k < j /\ display[elements[i]] = display[elements[j]])
            => display[elements[k]] = display[elements[i]]

\* The element at address 2 was destroyed; the list holds the element at
\* address 4, constructed on display 1, before the elements at addresses
\* 1 and 3 of display 2.
C29_Witness ==
    /\ destroyed = {2}
    /\ elements = <<4, 1, 3>>
    /\ display[4] = 1 /\ display[1] = 2 /\ display[3] = 2

\* Entry k of the trace is a parse call on bytes that lie within the bytes
\* received of a packet of at least four bytes.
ParsedWithinPacket(k) ==
    /\ teensyTrace[k].len >= 4
    /\ teensyTrace[k].index + 4 <= teensyTrace[k].len

\* The call of usb_rx that returned the packet id.
SiteOf(id) ==
    LET k == CHOOSE x \in 1..Len(teensyTrace) :
                 teensyTrace[x].op = "rx" /\ teensyTrace[x].id = id
    IN teensyTrace[k].site

(***************************************************************************)
(* C30: on Teensy 3.x, read() never passes a packet of fewer than four     *)
(* bytes to the parser, whichever call of usb_rx returned it, and never    *)
(* gives the parser four bytes that reach past the packet's len.           *)
(***************************************************************************)
C30_OnlyValidPacketsParsed ==
    \A k \in 1..Len(teensyTrace) :
        teensyTrace[k].op = "parse" => ParsedWithinPacket(k)

\* A packet of two bytes was returned by the usb_rx call made after the
\* packet before it was used up, and was passed to the parser.
C30_ShortPacketParsed ==
    \E k \in 1..Len(teensyTrace) :
        /\ teensyTrace[k].op = "parse"
        /\ teensyTrace[k].len = 2
        /\ SiteOf(teensyTrace[k].id) = "next"

\* The packets usb_rx returned so far, and those usb_free was called on.
FetchedIds == {teensyTrace[k].id : k \in {x \in 1..Len(teensyTrace) :
                                            teensyTrace[x].op = "rx"}}
FreedIds == {teensyTrace[k].id : k \in {x \in 1..Len(teensyTrace) :
                                          teensyTrace[x].op = "free"}}

\* The entry of the trace at which usb_rx returned the packet id.
RxOf(id) ==
    teensyTrace[CHOOSE x \in 1..Len(teensyTrace) :
                    teensyTrace[x].op = "rx" /\ teensyTrace[x].id = id]

\* The groups of four bytes of the packet id that were passed to the parser
\* from within the bytes received, in the order of the calls.
GroupsParsed(id) ==
    LET Within(x) == /\ x.op = "parse" /\ x.id = id
                     /\ x.index + 4 <= x.len
        sel == SelectSeq(teensyTrace, Within)
    IN [i \in 1..Len(sel) |-> sel[i].data]

\* The number of usb_free calls on the packet id.
TimesFreed(id) ==
    Cardinality({x \in 1..Len(teensyTrace) :
                   teensyTrace[x].op = "free" /\ teensyTrace[x].id = id})

(***************************************************************************)
(* C31: on Teensy 3.x, over any sequence of read() calls, the groups of    *)
(* four bytes of every received packet of valid length are passed to the   *)
(* parser once each and in order (all of them by the time the packet is    *)
(* freed, and the first index / 4 of them while rx_packet holds it); every *)
(* packet usb_rx returned is freed once, at the latest when the next one   *)
(* is read, and never twice; no packet is read or freed after its free.    *)
(***************************************************************************)
C31_ExactlyOnce ==
    /\ \A id \in FreedIds :
         RxOf(id).len >= 4 => GroupsParsed(id) = RxOf(id).buf
    /\ \A id \in FetchedIds \ FreedIds :
         /\ Len(rx_packet) = 1 /\ rx_packet[1].id = id
         /\ GroupsParsed(id)
              = SubSeq(RxOf(id).buf, 1, Len(GroupsParsed(id)))
         /\ rx_packet[1].index <= rx_packet[1].len
              => Len(GroupsParsed(id)) = rx_packet[1].index \div 4
    /\ \A id \in FetchedIds : TimesFreed(id) <= 1
    /\ \A j, k \in 1..Len(teensyTrace) :
         (j < k /\ teensyTrace[j].op = "free")
            => teensyTrace[k].id # teensyTrace[j].id
    /\ \A j, k \in 1..Len(teensyTrace) :
         (j < k /\ teensyTrace[j].op = "parse" /\ teensyTrace[k].op = "parse")
            => \/ teensyTrace[j].id < teensyTrace[k].id
               \/ /\ teensyTrace[j].id = teensyTrace[k].id
                  /\ teensyTrace[j].index < teensyTrace[k].index

\* A packet of eight bytes was returned by usb_rx, its two groups were
\* parsed in two read() calls and it was freed.
C31_Witness ==
    /\ Len(teensyTrace) >= 4
    /\ teensyTrace[1].op = "rx" /\ teensyTrace[1].len = 8
    /\ teensyTrace[2].op = "parse" /\ teensyTrace[2].index = 0
    /\ teensyTrace[2].data = NoteOnPacket
    /\ teensyTrace[3].op = "parse" /\ teensyTrace[3].index = 4
    /\ teensyTrace[3].data = NoteOffPacket
    /\ teensyTrace[4].op = "free" /\ teensyTrace[4].id = teensyTrace[1].id

\* A read() step of the stream interface took n bytes: the events they
\* produce when parsed one by one from the parser's state before the step.
EventsOfTaken(n) ==
    LET os == Run(parser, SubSeq(stream, 1, n))
    IN [i \in 1..n |-> os[i].event]

StreamReadStops ==
    Read =>
      LET n == Len(stream) - Len(stream')
      IN /\ RestAfter(stream', stream, n)
         /\ \A i \in 1..(n - 1) : EventsOfTaken(n)[i] = NO_MESSAGE
         /\ result' # NO_MESSAGE =>
              n >= 1 /\ EventsOfTaken(n)[n] = result'
         /\ result' = NO_MESSAGE =>
              /\ stream' = <<>>
              /\ \A i \in 1..n : EventsOfTaken(n)[i] = NO_MESSAGE

(***************************************************************************)
(* C32: StreamMIDI_Interface::read() stops taking bytes at the first byte  *)
(* whose parse result is not NO_MESSAGE and returns that result; the bytes *)
(* that arrived after it stay in the stream for the next read(); read()    *)
(* returns NO_MESSAGE only when it has left no byte in the stream.         *)
(***************************************************************************)
C32_ReadStopsAtFirstEvent == [][StreamReadStops]_vars

\* A read() returned the Program Change completed by the first two of four
\* bytes; the SysEx that arrived after it is still in the stream.
C32_Witness ==
    /\ fed = <<PROGRAM_CHANGE, 64>>
    /\ result = CHANNEL_MESSAGE
    /\ stream = <<SYSEX_START, SYSEX_END>>

\* The payload bytes of the first m packets of q, in order.
RECURSIVE PayloadOf(_, _)
PayloadOf(q, m) ==
    IF m = 0 THEN <<>> ELSE PayloadOf(q, m - 1) \o payload(q[m])

\* The first m packets of q are the packets of one complete SysEx message
\* of at most SYSEX_BUFFER_SIZE bytes (the one of the build, which the
\* parser holds): SysEx Start, data bytes, SysEx End, in packets of one
\* cable with CIN 0x4 but for the last.
CompleteSysEx(q, m) ==
    LET bytes == PayloadOf(q, m)
    IN /\ m >= 1 /\ m <= Len(q)
       /\ \A i \in 1..m : packetCable(q[i]) = packetCable(q[1])
       /\ \A i \in 1..(m - 1) : packetCIN(q[i]) = 4
       /\ packetCIN(q[m]) \in {5, 6, 7}
       /\ Len(bytes) >= 2 /\ Len(bytes) <= usbParser.SYSEX_BUFFER_SIZE
       /\ bytes[1] = SYSEX_START /\ bytes[Len(bytes)] = SYSEX_END
       /\ \A i \in 2..(Len(bytes) - 1) : isData(bytes[i])

UsbReadStops ==
    UsbRead =>
      LET n == Len(usbRx) - Len(usbRx')
          os == UsbRun(usbParser, SubSeq(usbRx, 1, n))
      IN /\ RestAfter(usbRx', usbRx, n)
         /\ n <= (usbParser.SYSEX_BUFFER_SIZE + 2) \div 3
         /\ \A i \in 1..(n - 1) : os[i].event = NO_MESSAGE
         /\ usbResult' # NO_MESSAGE => n >= 1 /\ os[n].event = usbResult'
         /\ usbResult' = NO_MESSAGE =>
              /\ \A i \in 1..n : os[i].event = NO_MESSAGE
              /\ usbRx' = <<>>
                 \/ n = (usbParser.SYSEX_BUFFER_SIZE + 2) \div 3
         /\ \A m \in 1..Len(usbRx) :
              CompleteSysEx(usbRx, m) =>
                /\ n = m
                /\ usbResult' = SYSEX_MESSAGE
                /\ usbReturned'[Len(usbReturned')].event = SYSEX_MESSAGE
                /\ usbReturned'[Len(usbReturned')].message.cable
                     = packetCable(usbRx[1])
                /\ viewBytes(usbReturned'[Len(usbReturned')].message)
                     = SubSeq(PayloadOf(usbRx, m), 2,
                              Len(PayloadOf(usbRx, m)) - 1)

(***************************************************************************)
(* C33: USBMIDI_Interface::read() takes packets one at a time from the     *)
(* front of the queue and stops at the first packet whose parse result is  *)
(* not NO_MESSAGE, returning that result, or when no packet is left; it    *)
(* takes at most (SYSEX_BUFFER_SIZE + 2) / 3 packets in one call; and when *)
(* the queue starts with the packets of one complete SysEx message of at   *)
(* most SYSEX_BUFFER_SIZE bytes, the call returns that SysEx event.        *)
(***************************************************************************)
C33_UsbReadStops == [][UsbReadStops]_vars

\* With a Note On waiting behind them, the two packets of a SysEx of four
\* bytes on cable 0 were read: read() took the packet that starts it, which
\* completes nothing, and returned the SysEx at the packet that ends it; the
\* Note On is left.
C33_Witness ==
    /\ usbFed = <<writeUSBPacket(0, 4, SYSEX_START, 1, 2),
                  writeUSBPacket(0, 5, SYSEX_END, 0, 0)>>
    /\ usbLog[1].event = NO_MESSAGE
    /\ usbResult = SYSEX_MESSAGE
    /\ usbReturned = <<UsbObserved(usbParser, SYSEX_MESSAGE)>>
    /\ viewBytes(usbReturned[1].message) = <<1, 2>>
    /\ usbRx = <<writeUSBPacket(0, 9, NOTE_ON, 64, 127)>>

\* The payload bytes of the packets P, in order.
RECURSIVE PayloadBytes(_)
PayloadBytes(P) ==
    IF Len(P) = 0 THEN <<>>
    ELSE SubSeq(Head(P), 2, 4) \o PayloadBytes(Tail(P))

(***************************************************************************)
(* C34: the USB SysEx send of n bytes preserves the data: the payload      *)
(* bytes of the packets it writes, in order and cut to n bytes, are the n  *)
(* bytes given; it writes ceil(n / 3) packets, none when n is 0; the send  *)
(* ends, and calls flush() once, after the last packet.                    *)
(***************************************************************************)
C34_SysExSendPreservesData ==
    \A n \in 1..Len(sent) :
        IsCall(n, "usb", "sysex") =>
            LET U == UnitsOfCall(usbTx, n)
                P == PacketsOfCall(usbTx, n)
            IN /\ Len(P) = (sent[n].length + 2) \div 3
               /\ SubSeq(PayloadBytes(P), 1, sent[n].length)
                    = SubSeq(sent[n].data, 1, sent[n].length)
               /\ U = P \o <<flush>>

\* Seven bytes were sent on cable 0 in three packets, followed by the flush.
C34_Witness ==
    \E n \in 1..Len(sent) :
        /\ IsCall(n, "usb", "sysex")
        /\ sent[n].length = 7 /\ sent[n].cn = 0
        /\ sent[n].data[2] = 2
        /\ UnitsOfCall(usbTx, n)
             = <<(<<4, SYSEX_START, 2, 3>>), (<<4, 4, 5, 6>>),
                 (<<5, 7, 0, 0>>), flush>>

(***************************************************************************)
(* C35: on Teensy++ 2.0, whatever path writeUSBPacket() or read() returns  *)
(* by (USB not configured, transmit timeout, no data available, success),  *)
(* SREG is what it was when the function was called: interrupts that were  *)
(* enabled before the call are enabled after it.                           *)
(***************************************************************************)
C35_InterruptStateRestored ==
    \A k \in 1..Len(ppLog) : ppLog[k].after = ppLog[k].before

\* writeUSBPacket() was called with interrupts enabled; while it waited a
\* handler called read(), which found no data; then writeUSBPacket() gave
\* up at the timeout.  Interrupts are enabled.
C35_Witness ==
    /\ Len(ppLog) = 2
    /\ ppLog[1] = [call |-> "read", exit |-> "noData",
                   before |-> 0, after |-> 0]
    /\ ppLog[2] = [call |-> "writeUSBPacket", exit |-> "timeout",
                   before |-> 128, after |-> 128]
    /\ ppCall = <<>>
    /\ SREG = 128

\* |n|
Abs(n) == IF n < 0 THEN -n ELSE n

\* What one update() step does with the position it reads.
UpdateKeepsRemainder ==
    updates' # updates =>
        /\ previousPosition' % pulsesPerStep = 0
        /\ Abs(encoder - previousPosition') < pulsesPerStep
        /\ (Abs(encoder - previousPosition) < pulsesPerStep) =>
               /\ sends' = sends
               /\ previousPosition' = previousPosition
        /\ (Abs(encoder - previousPosition) >= pulsesPerStep) =>
               Len(sends') = Len(sends) + 1

(***************************************************************************)
(* C36: with pulsesPerStep >= 1, after every update() previousPosition is  *)
(* a multiple of pulsesPerStep and less than pulsesPerStep away from the   *)
(* position read in that update; when the movement since previousPosition  *)
(* is less than a whole step nothing is sent and previousPosition stays,   *)
(* so the pulses count towards the next step, and a movement of a whole    *)
(* step or more is sent.                                                   *)
(***************************************************************************)
C36_PartialPulsesKept == [][UpdateKeepsRemainder]_vars

\* Two pulses make a step: the update at position -1 sent nothing, the
\* update at position -3 sent one step back and one pulse is left over.
C36_Witness ==
    /\ pulsesPerStep = 2
    /\ Len(updates) = 2
    /\ updates[1].position = -1
    /\ updates[2].position = -3
    /\ Len(sends) = 1
    /\ sends[1].update = 2
    /\ sends[1].delta = -3
    /\ previousPosition = -2
    /\ encoder = -3

RECURSIVE SumOfDeltas(_)
SumOfDeltas(S) == IF Len(S) = 0 THEN 0 ELSE Head(S).delta + SumOfDeltas(Tail(S))

(***************************************************************************)
(* C37: the deltas passed to sender.send() add up to speedMultiply times   *)
(* previousPosition / pulsesPerStep; every send carries the address that   *)
(* was active in the update that made it; no update sends twice.           *)
(***************************************************************************)
C37_SentStepsAddUp ==
    pulsesPerStep # 0 =>
        /\ SumOfDeltas(sends)
               = speedMultiply * operator_div(previousPosition, pulsesPerStep)
        /\ \A k \in 1..Len(sends) :
               /\ sends[k].update \in 1..Len(updates)
               /\ sends[k].address = updates[sends[k].update].address
        /\ \A j, k \in 1..Len(sends) :
               j < k => sends[j].update < sends[k].update

\* Two pulses make a step and a step counts three: a turn back by three
\* pulses sent -3 to address 0, then a turn forward sent 6 to address 1.
C37_Witness ==
    /\ pulsesPerStep = 2
    /\ speedMultiply = 3
    /\ Len(sends) = 2
    /\ sends[1] = [delta |-> -3, address |-> 0, update |-> 1]
    /\ sends[2].delta = 6
    /\ sends[2].address = 1
    /\ updates[1].position = -3
    /\ previousPosition = 2

\* The updates in which the button reported an edge.
Edges == {k \in 1..Len(button) : button[k] \in {"Falling", "Rising"}}

\* The setting that belongs to the edge of update k.
SettingOfEdge(k) == IF button[k] = "Falling" THEN 1 ELSE 0

(***************************************************************************)
(* C38: GenericSwitchSelector::update() calls set(1) in exactly the        *)
(* updates where the button reports Falling and set(0) in exactly those    *)
(* where it reports Rising, once each, and in no other update; when there  *)
(* was an edge, the selection is the setting of the latest one.            *)
(***************************************************************************)
C38_SelectionFollowsEdges ==
    /\ Len(setCalls) = Cardinality(Edges)
    /\ \A c \in 1..Len(setCalls) :
           /\ setCalls[c].update \in Edges
           /\ setCalls[c].setting = SettingOfEdge(setCalls[c].update)
    /\ \A c, d \in 1..Len(setCalls) :
           c < d => setCalls[c].update < setCalls[d].update
    /\ \A k \in Edges :
           (\A j \in Edges : j <= k) => setting = SettingOfEdge(k)

\* Pressed, let go and pressed again: set(1), set(0) and set(1) were
\* called in the updates 1, 3 and 4, and the selection is 1 while the
\* button stays down.
C38_Witness ==
    /\ button = <<"Falling", "Pressed", "Rising", "Falling", "Pressed">>
    /\ setCalls = <<[setting |-> 1, update |-> 1],
                    [setting |-> 0, update |-> 3],
                    [setting |-> 1, update |-> 4]>>
    /\ setting = 1

(***************************************************************************)
(* C39: a SysExMessage constructed from (data, length, cable) reports the  *)
(* length it was given, whatever size_t value that is; two SysExMessages   *)
(* compare equal only if they were given the same number of bytes, the     *)
(* same cable and the same bytes.                                          *)
(***************************************************************************)
C39_SysExLengthAndEquality ==
    /\ Checked("SysExMessage") =>
           checked[1].message.length = checked[1].length
    /\ (Checked("compareSysEx") /\ checked[1].equal) =>
           /\ checked[1].this.length = checked[1].other.length
           /\ checked[1].this.cable = checked[1].other.cable
           /\ SubSeq(checked[1].this.data, 1, checked[1].this.length)
                  = SubSeq(checked[1].other.data, 1, checked[1].other.length)

\* A message constructed with 256 bytes reports the length 0.
C39_LengthTruncated ==
    /\ Checked("SysExMessage")
    /\ checked[1].length = 256
    /\ checked[1].message.length = 0

(***************************************************************************)
(* C40: setChannel(c) changes the low nibble of the header only: after it  *)
(* getChannel() is c, and the message type, data1, data2 and the cable are *)
(* what they were.  setMessageType(t) changes the high nibble only: after  *)
(* it the channel, data1, data2 and the cable are what they were, and      *)
(* getMessageType() is t for each of the seven channel voice types.        *)
(***************************************************************************)
C40_NibbleAccessorsIndependent ==
    /\ Checked("setChannel") =>
           LET b == checked[1].before
               a == checked[1].after
           IN /\ getChannel(a.header) = checked[1].arg
              /\ getMessageType(a.header) = getMessageType(b.header)
              /\ a.data1 = b.data1 /\ a.data2 = b.data2
              /\ a.cable = b.cable
    /\ Checked("setMessageType") =>
           LET b == checked[1].before
               a == checked[1].after
           IN /\ getChannel(a.header) = getChannel(b.header)
              /\ a.data1 = b.data1 /\ a.data2 = b.data2
              /\ a.cable = b.cable
              /\ checked[1].arg \in ChannelVoiceTypes =>
                     getMessageType(a.header) = checked[1].arg

\* A Note On on channel 16 whose data1, data2 and cable had been set to 5,
\* 9 and 15 was moved to channel 3.
C40_Witness ==
    /\ Checked("setChannel")
    /\ checked[1].before = ChannelMessage(NOTE_ON + 15, 5, 9, 15)
    /\ checked[1].arg = 2
    /\ checked[1].after = ChannelMessage(NOTE_ON + 2, 5, 9, 15)

====
